---- MODULE Spec2Model ----
(***************************************************************************)
(* CodeHunt-2026 backend (backend/server.js): the team record store and    *)
(* the request handlers that move a team through the six phases.           *)
(*                                                                         *)
(* Requests are handled one at a time: a handler action runs from the      *)
(* idle state (no request being answered), does the whole handler          *)
(* (validation, lookup, scoring, saveTeam) and leaves the request and its  *)
(* response in req / res; Respond hands the response to the client and     *)
(* returns to idle.  The store is the in-memory backend (teamsDB).         *)
(*                                                                         *)
(* With the durable backend a handler's lookup and its later update are    *)
(* two awaited round trips, and other handlers run in between; the         *)
(* specification SpecConcurrent has those two steps as separate actions,   *)
(* with the handlers in flight kept in inflight.                           *)
(***************************************************************************)
EXTENDS Integers, Sequences, FiniteSets, TLC

VARIABLES
    teamsDB,   \* server.js:93  Map teamId -> team record
    nextId,    \* number of identifiers generated so far, plus one (server.js:475)
    req,       \* the request being answered (NoRequest when idle)
    res,       \* its response (NoResponse when idle)
    inflight,  \* handlers between their awaits, by slot (SpecConcurrent)
    client     \* the state of the browser pages (SpecClient)

vars == <<teamsDB, nextId, req, res, inflight, client>>

(***************************************************************************)
(* Bounds of the model.                                                    *)
(***************************************************************************)
\* registrations accepted over a run
MaxTeams == 2

\* handlers that can be between their awaits at the same time
MaxInflight == 2

\* teams in a store the listings are read from
MaxBoardTeams == 11

(***************************************************************************)
(* JavaScript values of request bodies.  A string is a sequence of         *)
(* one-character strings, so that trim / case folding / parseInt are       *)
(* computed as the code computes them.                                     *)
(***************************************************************************)
Undefined == [t |-> "undef", n |-> 0, s |-> <<>>]
Null == [t |-> "null", n |-> 0, s |-> <<>>]
Num(k) == [t |-> "num", n |-> k, s |-> <<>>]
Str(chars) == [t |-> "str", n |-> 0, s |-> chars]
\* a team identifier: Id(k), k >= 1, is the k-th identifier generated by
\* register; Id(0) is an identifier string that was never generated
Id(k) == [t |-> "id", n |-> k, s |-> <<>>]

\* a JS array (its items in order) and a plain JS object (a function from
\* its keys, which are strings, to its values)
Arr(items) == [t |-> "arr", n |-> 0, s |-> items]
Obj(entries) == [t |-> "obj", n |-> 0, s |-> entries]

\* JS truthiness of the values above ('' and undefined / null are falsy)
Truthy(v) ==
    CASE v.t = "undef" -> FALSE
      [] v.t = "null" -> FALSE
      [] v.t = "str" -> v.s # <<>>
      [] v.t = "num" -> v.n # 0
      [] OTHER -> TRUE

Lowers == <<"a","b","c","d","e","f","g","h","i","j","k","l","m",
            "n","o","p","q","r","s","t","u","v","w","x","y","z">>
Uppers == <<"A","B","C","D","E","F","G","H","I","J","K","L","M",
            "N","O","P","Q","R","S","T","U","V","W","X","Y","Z">>

LowerChar(c) ==
    IF \E i \in DOMAIN Uppers : Uppers[i] = c
    THEN Lowers[CHOOSE i \in DOMAIN Uppers : Uppers[i] = c]
    ELSE c

UpperChar(c) ==
    IF \E i \in DOMAIN Lowers : Lowers[i] = c
    THEN Uppers[CHOOSE i \in DOMAIN Lowers : Lowers[i] = c]
    ELSE c

\* String.prototype.toLowerCase / toUpperCase
ToLowerCase(chars) == [i \in DOMAIN chars |-> LowerChar(chars[i])]
ToUpperCase(chars) == [i \in DOMAIN chars |-> UpperChar(chars[i])]

IsSpace(c) == c \in {" ", "\t", "\n"}

SetMin(S) == CHOOSE m \in S : \A k \in S : m <= k
SetMax(S) == CHOOSE m \in S : \A k \in S : m >= k

\* String.prototype.trim
Trim(chars) ==
    LET keep == {i \in DOMAIN chars : ~IsSpace(chars[i])}
    IN  IF keep = {} THEN <<>> ELSE SubSeq(chars, SetMin(keep), SetMax(keep))

\* String.prototype.includes
Includes(chars, sub) ==
    \E i \in 0..(Len(chars) - Len(sub)) : SubSeq(chars, i + 1, i + Len(sub)) = sub

Digits == <<"0","1","2","3","4","5","6","7","8","9">>
IsDigit(c) == \E i \in DOMAIN Digits : Digits[i] = c
DigitVal(c) == (CHOOSE i \in DOMAIN Digits : Digits[i] = c) - 1

RECURSIVE DecimalValue(_)
DecimalValue(ds) ==
    IF ds = <<>> THEN 0
    ELSE 10 * DecimalValue(SubSeq(ds, 1, Len(ds) - 1)) + DigitVal(ds[Len(ds)])

\* parseInt(string) with no radix: leading white space is skipped, an
\* optional sign is read, then the longest run of decimal digits; NaN when
\* there is none.  (No key of the model starts with 0x.)
ParseInt(chars) ==
    LET firstNonSpace == {i \in DOMAIN chars : ~IsSpace(chars[i])}
        start == IF firstNonSpace = {} THEN Len(chars) + 1 ELSE SetMin(firstNonSpace)
        signed == start \in DOMAIN chars /\ chars[start] \in {"+", "-"}
        from == IF signed THEN start + 1 ELSE start
        stops == {i \in from..Len(chars) : ~IsDigit(chars[i])}
        upto == IF stops = {} THEN Len(chars) ELSE SetMin(stops) - 1
        mag == DecimalValue(SubSeq(chars, from, upto))
    IN  IF upto < from THEN [nan |-> TRUE, n |-> 0]
        ELSE [nan |-> FALSE, n |-> IF signed /\ chars[start] = "-" THEN 0 - mag ELSE mag]

\* array[index] of a JS array held as a sequence (index from 0); undefined
\* past the end
ArrGet(arr, index) == IF index + 1 \in DOMAIN arr THEN arr[index + 1] ELSE Undefined

(***************************************************************************)
(* Phase content (server.js:270-429): the private keys.                    *)
(***************************************************************************)
phase2Questions == <<
    [id |-> 1, correctAnswer |-> 2], [id |-> 2, correctAnswer |-> 0],
    [id |-> 3, correctAnswer |-> 2], [id |-> 4, correctAnswer |-> 3],
    [id |-> 5, correctAnswer |-> 1], [id |-> 6, correctAnswer |-> 2],
    [id |-> 7, correctAnswer |-> 3], [id |-> 8, correctAnswer |-> 3],
    [id |-> 9, correctAnswer |-> 3], [id |-> 10, correctAnswer |-> 2] >>

phase3Questions == <<
    [id |-> 1, correctAnswer |-> 0], [id |-> 2, correctAnswer |-> 1],
    [id |-> 3, correctAnswer |-> 0], [id |-> 4, correctAnswer |-> 0],
    [id |-> 5, correctAnswer |-> 2] >>

\* every question of phases 2, 3 and the mcq riddles has four options
NumOptions == 4

S_BLDG_2 == <<"B","L","D","G"," ","2">>
S_BLDG2 == <<"B","L","D","G","2">>
S_bldg_2 == <<"b","l","d","g"," ","2">>
S_bldg2 == <<"b","l","d","g","2">>
S_Bldg_2 == <<"B","l","d","g"," ","2">>
S_Bldg2 == <<"B","l","d","g","2">>

phase5Riddles == <<
    [id |-> 1, type |-> "mcq", correctAnswer |-> 2],
    [id |-> 2, type |-> "mcq", correctAnswer |-> 2],
    [id |-> 3, type |-> "text",
     acceptedAnswers |-> {S_BLDG_2, S_BLDG2, S_bldg_2, S_bldg2, S_Bldg_2, S_Bldg2}] >>

(***************************************************************************)
(* Team Record Store (server.js:93-185), in-memory backend.                *)
(***************************************************************************)
EmptyObject == [k \in {} |-> TRUE]

\* the keys whose value, in a team record and in every update a handler
\* issues, is a nested object (typeof 'object', not an array)
IsObjectKey(k) == k \in {"phase1", "phase2", "phase3", "phase4", "phase5", "phase6"}

\* teamsDB.get(teamId) || null
getTeamById_AnyTeam(teamId) ==
    IF teamId.t = "id" /\ teamId.n \in DOMAIN teamsDB THEN teamsDB[teamId.n]
    ELSE IF teamsDB = EmptyObject THEN Null
    ELSE teamsDB[SetMin(DOMAIN teamsDB)]

getTeamById(teamId) ==
    IF teamId.t = "id" /\ teamId.n \in DOMAIN teamsDB THEN teamsDB[teamId.n] ELSE Null

\* for (const [id, team] of teamsDB) if (team.teamName === normalizedName)
getTeamByName_CaseSensitive(teamName) ==
    LET hits == {id \in DOMAIN teamsDB : teamsDB[id].teamName = teamName}
    IN  IF hits = {} THEN Null ELSE teamsDB[SetMin(hits)]

getTeamByName(teamName) ==
    LET normalizedName == ToLowerCase(teamName)
        hits == {id \in DOMAIN teamsDB : teamsDB[id].teamName = normalizedName}
    IN  IF hits = {} THEN Null ELSE teamsDB[SetMin(hits)]

\* the keys of a phase record whose value comes from the request body
IsValueKey(k) == k \in {"aiPrompt", "locationAnswer"}

\* deepMerge on a value of the request body: an object is merged into the
\* target's value (an empty object when the target has none or a falsy one;
\* the assignments to a target that is not an object leave it as it is),
\* anything else replaces it
RECURSIVE deepMergeValue(_, _)
deepMergeValue(target, source) ==
    IF target.t # "obj" THEN target
    ELSE Obj([k \in DOMAIN target.s \cup DOMAIN source.s |->
                IF k \notin DOMAIN source.s THEN target.s[k]
                ELSE IF source.s[k].t = "obj"
                     THEN deepMergeValue(IF k \in DOMAIN target.s /\ Truthy(target.s[k])
                                         THEN target.s[k] ELSE Obj(EmptyObject),
                                         source.s[k])
                     ELSE source.s[k]])

\* deepMerge(target, source): a nested object of the source is merged into
\* the target's (created empty when the target has none), anything else
\* replaces the target's value
RECURSIVE deepMerge(_, _)
deepMerge(target, source) ==
    [k \in DOMAIN target \cup DOMAIN source |->
        IF k \notin DOMAIN source THEN target[k]
        ELSE IF IsObjectKey(k)
             THEN deepMerge(IF k \in DOMAIN target THEN target[k] ELSE EmptyObject,
                            source[k])
             ELSE IF IsValueKey(k) /\ source[k].t = "obj"
             THEN deepMergeValue(IF k \in DOMAIN target /\ Truthy(target[k])
                                 THEN target[k] ELSE Obj(EmptyObject),
                                 source[k])
             ELSE source[k]]

\* saveTeam(teamId, teamData): the store after the merge
saveTeam_FlagsOnly(teamId, teamData) ==
    LET existingTeam == IF teamId.n \in DOMAIN teamsDB THEN teamsDB[teamId.n]
                        ELSE EmptyObject
        partial == [k \in DOMAIN teamData \ {"currentPhase"} |-> teamData[k]]
    IN  [id \in DOMAIN teamsDB \cup {teamId.n} |->
            IF id = teamId.n THEN deepMerge(existingTeam, partial) ELSE teamsDB[id]]

saveTeam_EveryTeam(teamId, teamData) ==
    [id \in DOMAIN teamsDB \cup {teamId.n} |->
        deepMerge(IF id \in DOMAIN teamsDB THEN teamsDB[id] ELSE EmptyObject, teamData)]

saveTeam(teamId, teamData) ==
    LET existingTeam == IF teamId.n \in DOMAIN teamsDB THEN teamsDB[teamId.n]
                        ELSE EmptyObject
    IN  [id \in DOMAIN teamsDB \cup {teamId.n} |->
            IF id = teamId.n THEN deepMerge(existingTeam, teamData) ELSE teamsDB[id]]

\* createTeam(teamId, teamData): teamsDB.set
createTeam(teamId, teamData) ==
    [id \in DOMAIN teamsDB \cup {teamId.n} |->
        IF id = teamId.n THEN teamData ELSE teamsDB[id]]

(***************************************************************************)
(* saveTeam on the durable backend (server.js:134-155): the update is      *)
(* flattened to dot paths and handed to update().  depth 0 is the update   *)
(* itself, depth 1 a phase record, deeper levels a value of the body.      *)
(***************************************************************************)
\* typeof obj[key] === 'object' && obj[key] !== null && !Array.isArray(obj[key])
IsNestedObject(fields, k, depth) ==
    IF depth = 0 THEN IsObjectKey(k)
    ELSE IF depth = 1 THEN IsValueKey(k) /\ fields[k].t = "obj"
    ELSE fields[k].t = "obj"

NestedFields(fields, k, depth) == IF depth = 0 THEN fields[k] ELSE fields[k].s

\* the keys of flatData, each a path of field names
RECURSIVE FlatPaths(_, _)
FlatPaths(fields, depth) ==
    UNION {IF IsNestedObject(fields, k, depth)
           THEN {<<k>> \o p : p \in FlatPaths(NestedFields(fields, k, depth), depth + 1)}
           ELSE {<<k>>} : k \in DOMAIN fields}

RECURSIVE FieldAt(_, _, _)
FieldAt(fields, p, depth) ==
    IF Len(p) = 1 THEN fields[p[1]]
    ELSE FieldAt(NestedFields(fields, p[1], depth), Tail(p), depth + 1)

flattenObject(obj) == [p \in FlatPaths(obj, 0) |-> FieldAt(obj, p, 0)]

\* the entries of flatData under the field k, with k taken off their paths
Below(flatData, k) ==
    [p \in {Tail(q) : q \in {q \in DOMAIN flatData : q[1] = k /\ Len(q) > 1}} |->
        flatData[<<k>> \o p]]

\* doc.update(flatData): each path is set to its value; the maps on the way
\* are kept and a missing one (or a value that is no map) becomes a map
RECURSIVE UpdateFields(_, _, _)
UpdateFields(fields, flatData, depth) ==
    LET heads == {p[1] : p \in DOMAIN flatData} IN
    [k \in DOMAIN fields \cup heads |->
        IF k \notin heads THEN fields[k]
        ELSE IF <<k>> \in DOMAIN flatData THEN flatData[<<k>>]
        ELSE IF depth = 0
        THEN UpdateFields(IF k \in DOMAIN fields THEN fields[k] ELSE EmptyObject,
                          Below(flatData, k), 1)
        ELSE Obj(UpdateFields(IF k \in DOMAIN fields /\ fields[k].t = "obj"
                              THEN fields[k].s ELSE EmptyObject,
                              Below(flatData, k), depth + 1))]

\* the store after saveTeam with useFirebase, for a document that exists
saveTeamDurable(teamId, teamData) ==
    [id \in DOMAIN teamsDB |->
        IF id = teamId.n THEN UpdateFields(teamsDB[id], flattenObject(teamData), 0)
        ELSE teamsDB[id]]

(***************************************************************************)
(* The two eligibility guards of the submission handlers.                  *)
(***************************************************************************)
\* if (team.phaseN?.completed) return 400
AlreadyCompleted_Never(team, phase) == FALSE

AlreadyCompleted(team, phase) ==
    /\ phase \in DOMAIN team
    /\ "completed" \in DOMAIN team[phase]
    /\ team[phase].completed

\* if (team.currentPhase !== N) return 400
NotOnPhase_Never(team, N) == FALSE

NotOnPhase(team, N) == team.currentPhase # N

(***************************************************************************)
(* Requests and responses.                                                 *)
(***************************************************************************)
NoRequest == [op |-> "none"]
NoResponse == [status |-> 0]

Error(code, message) == [status |-> code, body |-> [error |-> message]]
Ok(body) == [status |-> 200, body |-> body]

\* what a handler does: the response and the store it leaves
Outcome(response, db) == [res |-> response, db |-> db]

\* what a handler decides from the record it looked up: its response, and
\* the update it then passes to saveTeam, if any
NoUpdate == [write |-> FALSE]
Decision(response, update) == [res |-> response, update |-> update]

\* the whole handler, lookup to update, with nothing in between
Decided_Evicts(teamId, d) ==
    Outcome(d.res, IF d.update = NoUpdate
                   THEN [id \in DOMAIN teamsDB \ {teamId.n} |-> teamsDB[id]]
                   ELSE saveTeam(teamId, d.update))

Decided(teamId, d) ==
    Outcome(d.res, IF d.update = NoUpdate THEN teamsDB ELSE saveTeam(teamId, d.update))

\* no handler is between its awaits
Idle == [state |-> "idle"]
NoneInflight == [s \in 1..MaxInflight |-> Idle]

\* team identifiers a request can carry: every identifier generated so far
\* (stored or deleted since) and one that was never generated
TeamIdInputs == {Id(k) : k \in 0..(nextId - 1)}

\* a handler runs when no request is being answered; it is the whole handler
Serve(r, out) ==
    /\ req = NoRequest
    /\ req' = r
    /\ res' = out.res
    /\ teamsDB' = out.db
    /\ UNCHANGED inflight

\* a request of a client other than the pages modelled
Handle(r, out) == Serve(r, out) /\ UNCHANGED client

\* the response goes back to the client
Respond ==
    /\ req # NoRequest
    /\ req' = NoRequest
    /\ res' = NoResponse
    /\ UNCHANGED <<teamsDB, nextId, inflight, client>>

(***************************************************************************)
(* POST /api/teams/register (server.js:436-506)                            *)
(***************************************************************************)
S_Alpha == <<"A","l","p","h","a">>
S_alpha == <<"a","l","p","h","a">>
S_ALPHA == <<"A","L","P","H","A">>
S_mail == <<"a","@","b",".","c">>
S_mail_noat == <<"a","b",".","c">>
S_mail_nodot == <<"a","@","b","c">>
S_mail_space == <<"a"," ","@","b",".","c">>
S_members2 == <<"x",",","y">>
S_members3 == <<"x",",","y",","," ","z">>
S_members3e == <<"x",",",",","y",","," ",",","z">>
S_members4 == <<"x",",","y",",","z",",","w">>
S_members5 == <<"x",",","y",",","z",",","w",",","v">>

validThemes_WithRobotics ==
    {"AI in Healthcare", "Generative AI & Creativity", "Computer Science Fundamentals",
     "AI in Education & Learning", "AI in Smart Cities", "Robotics"}

validThemes == {"AI in Healthcare", "Generative AI & Creativity",
                "Computer Science Fundamentals", "AI in Education & Learning",
                "AI in Smart Cities"}

\* /^[^\s@]+@[^\s@]+\.[^\s@]+$/ : local@domain.tld, no white space and no
\* further @ anywhere
emailRegexTest(chars) ==
    \E at \in DOMAIN chars : \E dot \in DOMAIN chars :
        /\ chars[at] = "@"
        /\ chars[dot] = "."
        /\ 1 < at /\ at + 1 < dot /\ dot < Len(chars)
        /\ \A i \in DOMAIN chars : ~IsSpace(chars[i]) /\ (chars[i] = "@" => i = at)

\* String.prototype.split(',')
RECURSIVE SplitComma(_)
SplitComma(chars) ==
    LET commas == {i \in DOMAIN chars : chars[i] = ","}
    IN  IF commas = {} THEN <<chars>>
        ELSE <<SubSeq(chars, 1, SetMin(commas) - 1)>>
             \o SplitComma(SubSeq(chars, SetMin(commas) + 1, Len(chars)))

\* teamMembers.split(',').map(m => m.trim()).filter(m => m)
ParseMembers(chars) ==
    LET parts == SplitComma(chars)
        trimmed == [i \in DOMAIN parts |-> Trim(parts[i])]
    IN  SelectSeq(trimmed, LAMBDA m : m # <<>>)

\* the record a registration creates (server.js:477-491)
NewTeam_OnPhase2(teamId, r, members) ==
    [teamId |-> teamId,
     teamName |-> ToLowerCase(r.teamName.s),
     teamLeader |-> r.teamLeader,
     teamMembers |-> members,
     email |-> r.email,
     theme |-> r.theme,
     phase1 |-> [completed |-> TRUE],
     phase2 |-> [completed |-> FALSE],
     phase3 |-> [completed |-> FALSE],
     phase4 |-> [completed |-> FALSE],
     phase5 |-> [completed |-> FALSE],
     phase6 |-> [completed |-> FALSE],
     currentPhase |-> 2]

NewTeam(teamId, r, members) ==
    [teamId |-> teamId,
     teamName |-> ToLowerCase(r.teamName.s),
     teamLeader |-> r.teamLeader,
     teamMembers |-> members,
     email |-> r.email,
     theme |-> r.theme,
     phase1 |-> [completed |-> FALSE],
     phase2 |-> [completed |-> FALSE],
     phase3 |-> [completed |-> FALSE],
     phase4 |-> [completed |-> FALSE],
     phase5 |-> [completed |-> FALSE],
     phase6 |-> [completed |-> FALSE],
     currentPhase |-> 1]

\* the handler, with teamId the identifier it generates (line 475)
RegisterOutcomeAt(r, teamId) ==
    IF ~Truthy(r.teamName) \/ ~Truthy(r.teamLeader) \/ ~Truthy(r.teamMembers)
       \/ ~Truthy(r.email) \/ r.theme = ""
    THEN Outcome(Error(400, "All fields are required"), teamsDB)
    ELSE IF ~emailRegexTest(r.email.s)
    THEN Outcome(Error(400, "Invalid email format"), teamsDB)
    ELSE IF r.theme \notin validThemes
    THEN Outcome(Error(400, "Please select a valid theme"), teamsDB)
    ELSE LET members == ParseMembers(r.teamMembers.s) IN
    IF Len(members) < 3 \/ Len(members) > 4
    THEN Outcome(Error(400, "Team must have 3-4 members"), teamsDB)
    ELSE IF getTeamByName(r.teamName.s) # Null
    THEN Outcome(Error(400, "Team name already exists"), teamsDB)
    ELSE LET team == NewTeam(teamId, r, members) IN
         Outcome(Ok([success |-> TRUE, message |-> "Registration successful!",
                     team |-> team]),
                 createTeam(teamId, team))

\* the identifier is one never generated before
RegisterOutcome(r) == RegisterOutcomeAt(r, Id(nextId))

RegisterRequest(nm, mb, em, th) ==
    [op |-> "register", teamName |-> nm, teamLeader |-> Str(<<"L">>),
     teamMembers |-> mb, email |-> em, theme |-> th]

\* team names a registration carries: three spellings of one name
TeamNameInputs == {Str(S_Alpha), Str(S_alpha), Str(S_ALPHA)}

\* well-formed registrations, and registrations with one field missing or
\* malformed
RegisterRequests ==
    {RegisterRequest(nm, mb, Str(S_mail), "AI in Education & Learning") :
        nm \in TeamNameInputs \cup {Undefined},
        mb \in {Str(S_members3), Str(S_members4)}}
    \cup
    {RegisterRequest(Str(S_Alpha), mb, Str(S_mail), "AI in Smart Cities") :
        mb \in {Str(S_members2), Str(S_members3e), Str(S_members5), Undefined}}
    \cup
    {RegisterRequest(Str(S_Alpha), Str(S_members3), em, "AI in Healthcare") :
        em \in {Str(S_mail_noat), Str(S_mail_nodot), Str(S_mail_space), Undefined}}
    \cup
    {RegisterRequest(Str(S_Alpha), Str(S_members3), Str(S_mail), th) :
        th \in {"Robotics", ""}}
    \cup
    {[RegisterRequest(Str(S_Alpha), Str(S_members3), Str(S_mail), "AI in Healthcare")
        EXCEPT !.teamLeader = Undefined]}

RegisterOf(requests) ==
    \E r \in requests :
        LET out == RegisterOutcome(r) IN
        /\ Handle(r, out)
        /\ IF out.res.status = 200
           THEN nextId <= MaxTeams /\ nextId' = nextId + 1
           ELSE nextId' = nextId

Register == RegisterOf(RegisterRequests)

(***************************************************************************)
(* POST /api/phase1/submit (server.js:509-553)                             *)
(***************************************************************************)
S_prompt_lower == <<"a"," ","v","u","2","0","5","0">>
S_prompt_upper == <<"V","U","2","0","5","0"," ","b">>
S_prompt_none == <<"V","U"," ","2","0","5","0">>

S_VU2050 == <<"V","U","2","0","5","0">>
S_vu2050 == <<"v","u","2","0","5","0">>

\* aiPrompt.toUpperCase().includes('VU2050')
Phase1HasMarker_CaseSensitive(aiPrompt) == Includes(aiPrompt.s, S_VU2050)

Phase1HasMarker(aiPrompt) == Includes(ToUpperCase(aiPrompt.s), S_VU2050)

\* the handler from the record its lookup returned (the lookup is not
\* made when a required field is missing)
Phase1Decision(team, r) ==
    IF ~Truthy(r.teamId) \/ ~Truthy(r.aiPrompt)
    THEN Decision(Error(400, "Team ID and AI prompt are required"), NoUpdate)
    ELSE IF team = Null
    THEN Decision(Error(404, "Team not found"), NoUpdate)
    ELSE IF AlreadyCompleted(team, "phase1")
    THEN Decision(Error(400, "Phase 1 already completed"), NoUpdate)
    ELSE IF NotOnPhase(team, 1)
    THEN Decision(Error(400, "Not on Phase 1"), NoUpdate)
    ELSE IF r.aiPrompt.t # "str"
    THEN Decision(Error(500, "Server error"), NoUpdate)
    ELSE IF ~Phase1HasMarker(r.aiPrompt)
    THEN Decision(Error(400, "AI Prompt must contain keyword VU2050"), NoUpdate)
    ELSE Decision(Ok([success |-> TRUE, message |-> "Phase 1 completed!"]),
                  [phase1 |-> [aiPrompt |-> r.aiPrompt, completed |-> TRUE],
                   currentPhase |-> 2])

Phase1Outcome(r) == Decided(r.teamId, Phase1Decision(getTeamById(r.teamId), r))

Phase1Requests ==
    {[op |-> "phase1/submit", teamId |-> tid, aiPrompt |-> p] :
        tid \in TeamIdInputs \cup {Undefined},
        p \in {Str(S_prompt_lower), Str(S_prompt_upper), Str(S_prompt_none),
               Undefined}}

Phase1SubmitOf(requests) ==
    \E r \in requests : Handle(r, Phase1Outcome(r)) /\ UNCHANGED nextId

Phase1Submit == Phase1SubmitOf(Phase1Requests)

\* one marked prompt, for the specifications that only need phase 1 passed
Phase1One ==
    Phase1SubmitOf({[op |-> "phase1/submit", teamId |-> tid,
                     aiPrompt |-> Str(S_prompt_upper)] : tid \in TeamIdInputs})

(***************************************************************************)
(* Scoring of a multiple-choice quiz (phases 2 and 3):                     *)
(* answers[index] === q.correctAnswer, per question                        *)
(***************************************************************************)
IsCorrectAt(questions, answers, index) ==
    ArrGet(answers.s, index) = Num(questions[index + 1].correctAnswer)

QuizScore(questions, answers) ==
    Cardinality({index \in 0..(Len(questions) - 1) : IsCorrectAt(questions, answers, index)})

\* an answers array that differs from the answer key exactly at the
\* positions of wrong, where it holds the next option (kind "other"), the
\* right index as a string (kind "string") or nothing (kind "missing")
QuizAnswers(questions, wrong, kind) ==
    Arr([i \in DOMAIN questions |->
            IF i \notin wrong THEN Num(questions[i].correctAnswer)
            ELSE CASE kind = "other" -> Num((questions[i].correctAnswer + 1) % NumOptions)
                   [] kind = "string" -> Str(<<Digits[questions[i].correctAnswer + 1]>>)
                   [] OTHER -> Undefined])

(***************************************************************************)
(* POST /api/phase2/check-answer (server.js:579-601)                       *)
(***************************************************************************)
Phase2CheckOutcome(r) ==
    IF r.questionIndex.t \in {"undef", "null"} \/ r.answer.t \in {"undef", "null"}
    THEN Outcome(Error(400, "questionIndex and answer are required"), teamsDB)
    ELSE IF r.questionIndex.n < 0 \/ r.questionIndex.n >= Len(phase2Questions)
    THEN Outcome(Error(400, "Invalid question index"), teamsDB)
    ELSE Outcome(Ok([success |-> TRUE,
                     correct |-> (r.answer
                                  = Num(phase2Questions[r.questionIndex.n + 1].correctAnswer))]),
                 teamsDB)

Phase2CheckRequests ==
    {[op |-> "phase2/check-answer", questionIndex |-> qi, answer |-> a] :
        qi \in {Num(0 - 1), Num(0), Num(4), Num(9), Num(10), Undefined},
        a \in {Num(2), Num(1), Str(<<"2">>), Null}}

Phase2CheckAnswer ==
    \E r \in Phase2CheckRequests : Handle(r, Phase2CheckOutcome(r)) /\ UNCHANGED nextId

(***************************************************************************)
(* POST /api/phase2/complete (server.js:604-631)                           *)
(***************************************************************************)
Phase2CompleteUpdate == [phase2 |-> [completed |-> TRUE], currentPhase |-> 3]

Phase2CompleteOutcome(r) ==
    LET team == getTeamById(r.teamId) IN
    IF team = Null
    THEN Outcome(Error(404, "Team not found"), teamsDB)
    ELSE IF AlreadyCompleted(team, "phase2")
    THEN Outcome(Error(400, "Phase 2 already completed"), teamsDB)
    ELSE Outcome(Ok([success |-> TRUE, message |-> "Phase 2 completed!"]),
                 saveTeam(r.teamId, Phase2CompleteUpdate))

Phase2Complete ==
    \E tid \in TeamIdInputs :
        LET r == [op |-> "phase2/complete", teamId |-> tid] IN
        Handle(r, Phase2CompleteOutcome(r)) /\ UNCHANGED nextId

(***************************************************************************)
(* POST /api/phase2/submit (server.js:634-688)                             *)
(***************************************************************************)
\* const passed = score === phase2Questions.length
Phase2Passed_AllButOne(score) == score >= Len(phase2Questions) - 1

Phase2Passed(score) == score = Len(phase2Questions)

\* the handler from the record its lookup returned
Phase2SubmitDecision(team, r) ==
    IF team = Null
    THEN Decision(Error(404, "Team not found"), NoUpdate)
    ELSE IF AlreadyCompleted(team, "phase2")
    THEN Decision(Error(400, "Phase 2 already completed"), NoUpdate)
    ELSE IF r.answers.t \in {"undef", "null"}
    THEN Decision(Error(500, "Server error"), NoUpdate)
    ELSE LET score == QuizScore(phase2Questions, r.answers)
             results == [i \in DOMAIN phase2Questions |->
                            [questionIndex |-> i - 1,
                             isCorrect |-> IsCorrectAt(phase2Questions, r.answers, i - 1)]]
             passed == Phase2Passed(score)
             updateData == IF passed
                           THEN [phase2 |-> [completed |-> passed], currentPhase |-> 3]
                           ELSE [phase2 |-> [completed |-> passed]]
         IN  Decision(Ok([success |-> TRUE, score |-> score,
                          total |-> Len(phase2Questions), passed |-> passed,
                          results |-> results]),
                      updateData)

Phase2SubmitOutcome(r) ==
    Decided(r.teamId, Phase2SubmitDecision(getTeamById(r.teamId), r))

\* the answer key, the key with one position wrong or missing, every
\* position wrong, an empty array and no answers at all
Phase2AnswerInputs ==
    {QuizAnswers(phase2Questions, wrong, kind) :
        wrong \in {{}} \cup {{i} : i \in DOMAIN phase2Questions}
                  \cup {DOMAIN phase2Questions},
        kind \in {"other", "missing"}}
    \cup {Arr(<<>>), Undefined}

Phase2Requests ==
    {[op |-> "phase2/submit", teamId |-> tid, answers |-> a] :
        tid \in TeamIdInputs, a \in Phase2AnswerInputs}

Phase2SubmitOf(requests) ==
    \E r \in requests : Handle(r, Phase2SubmitOutcome(r)) /\ UNCHANGED nextId

Phase2Submit == Phase2SubmitOf(Phase2Requests)

(***************************************************************************)
(* POST /api/phase3/submit (server.js:702-766)                             *)
(***************************************************************************)
MIN_SCORE == 3

\* if (score < MIN_SCORE) the submission fails
Phase3Passed_Above(score) == score > MIN_SCORE

Phase3Passed(score) == ~(score < MIN_SCORE)

\* the handler from the record its lookup returned
Phase3SubmitDecision(team, r) ==
    IF team = Null
    THEN Decision(Error(404, "Team not found"), NoUpdate)
    ELSE IF NotOnPhase(team, 3)
    THEN Decision(Error(400, "Not on Phase 3"), NoUpdate)
    ELSE IF AlreadyCompleted(team, "phase3")
    THEN Decision(Error(400, "Phase 3 already completed"), NoUpdate)
    ELSE IF r.answers.t \in {"undef", "null"}
    THEN Decision(Error(500, "Server error"), NoUpdate)
    ELSE LET score == QuizScore(phase3Questions, r.answers)
             results == [i \in DOMAIN phase3Questions |->
                            [questionId |-> phase3Questions[i].id,
                             userAnswer |-> ArrGet(r.answers.s, i - 1),
                             correctAnswer |-> phase3Questions[i].correctAnswer,
                             isCorrect |-> IsCorrectAt(phase3Questions, r.answers, i - 1)]]
         IN  IF ~Phase3Passed(score)
             THEN Decision(Ok([success |-> TRUE, score |-> score, passed |-> FALSE,
                               results |-> results, questions |-> phase3Questions]),
                           NoUpdate)
             ELSE Decision(Ok([success |-> TRUE, score |-> score, passed |-> TRUE,
                               results |-> results, questions |-> phase3Questions]),
                           [phase3 |-> [completed |-> TRUE], currentPhase |-> 4])

Phase3SubmitOutcome(r) ==
    Decided(r.teamId, Phase3SubmitDecision(getTeamById(r.teamId), r))

Phase3AnswerInputs ==
    {QuizAnswers(phase3Questions, wrong, "other") : wrong \in SUBSET DOMAIN phase3Questions}
    \cup {QuizAnswers(phase3Questions, {i}, kind) :
            i \in DOMAIN phase3Questions, kind \in {"string", "missing"}}
    \cup {Arr(<<Num(0), Num(1), Num(0)>>), Arr(<<Num(0), Num(1)>>), Undefined}

Phase3Requests ==
    {[op |-> "phase3/submit", teamId |-> tid, answers |-> a] :
        tid \in TeamIdInputs, a \in Phase3AnswerInputs}

Phase3SubmitOf(requests) ==
    \E r \in requests : Handle(r, Phase3SubmitOutcome(r)) /\ UNCHANGED nextId

Phase3Submit == Phase3SubmitOf(Phase3Requests)

(***************************************************************************)
(* POST /api/phase4/submit (server.js:774-822)                             *)
(***************************************************************************)
\* 'positive sum: 22, count: 4'
S_phase4 == <<"p","o","s","i","t","i","v","e"," ","s","u","m",":"," ","2","2",",",
              " ","c","o","u","n","t",":"," ","4">>
S_phase4_caps == <<" ","P","o","s","i","t","i","v","e"," ","S","u","m",":"," ","2","2",",",
                   " ","C","O","U","N","T",":"," ","4","\n">>
S_phase4_nospace == <<"p","o","s","i","t","i","v","e"," ","s","u","m",":","2","2",",",
                      "c","o","u","n","t",":","4">>
S_22 == <<"2","2">>
S_22_padded == <<" ","2","2","\t">>
S_2_2 == <<"2"," ","2">>
S_23 == <<"2","3">>

\* const userAnswer = answer ? answer.trim().toLowerCase() : ''
\* const isCorrect = userAnswer === correctAnswer || userAnswer === '22'
Phase4IsCorrect(answer) ==
    LET correctAnswer == S_phase4
        userAnswer == IF Truthy(answer) THEN ToLowerCase(Trim(answer.s)) ELSE <<>>
    IN  userAnswer = correctAnswer \/ userAnswer = S_22

Phase4Update == [phase4 |-> [completed |-> TRUE], currentPhase |-> 5]

Phase4SubmitOutcome(r) ==
    LET team == getTeamById(r.teamId) IN
    IF team = Null
    THEN Outcome(Error(404, "Team not found"), teamsDB)
    ELSE IF NotOnPhase(team, 4)
    THEN Outcome(Error(400, "Not on Phase 4"), teamsDB)
    ELSE IF AlreadyCompleted(team, "phase4")
    THEN Outcome(Error(400, "Phase 4 already completed"), teamsDB)
    ELSE IF Truthy(r.answer) /\ r.answer.t # "str"
    THEN Outcome(Error(500, "Server error"), teamsDB)
    ELSE IF Phase4IsCorrect(r.answer)
    THEN Outcome(Ok([success |-> TRUE, correct |-> TRUE,
                     message |-> "Correct! The next treasure is at Room 2012!",
                     room |-> "2012"]),
                 saveTeam(r.teamId, Phase4Update))
    ELSE Outcome(Ok([success |-> FALSE, correct |-> FALSE,
                     message |-> "Incorrect output. Try again!"]),
                 teamsDB)

Phase4AnswerInputs ==
    {Str(S_phase4), Str(S_phase4_caps), Str(S_phase4_nospace), Str(S_22),
     Str(S_22_padded), Str(S_2_2), Str(S_23), Str(<<>>), Undefined, Num(22)}

Phase4Requests ==
    {[op |-> "phase4/submit", teamId |-> tid, answer |-> a] :
        tid \in TeamIdInputs, a \in Phase4AnswerInputs}

Phase4SubmitOf(requests) ==
    \E r \in requests : Handle(r, Phase4SubmitOutcome(r)) /\ UNCHANGED nextId

Phase4Submit == Phase4SubmitOf(Phase4Requests)

(***************************************************************************)
(* Phase 5 riddles: finding a riddle and judging one answer                *)
(***************************************************************************)
\* phase5Riddles.find(r => r.id === id): the riddle's position, 0 when none
FindRiddle(id) ==
    LET hits == {i \in DOMAIN phase5Riddles : Num(phase5Riddles[i].id) = id}
    IN  IF hits = {} THEN 0 ELSE SetMin(hits)

\* riddle.acceptedAnswers.some(a => a.trim().toLowerCase() === text.trim().toLowerCase())
AcceptedText_NoTrim(riddle, chars) ==
    \E a \in riddle.acceptedAnswers : ToLowerCase(a) = ToLowerCase(chars)

AcceptedText(riddle, chars) ==
    \E a \in riddle.acceptedAnswers : ToLowerCase(Trim(a)) = ToLowerCase(Trim(chars))

\* Number.prototype.toString of the small non-negative numbers of the model
NumToString(k) == IF k < 10 THEN <<Digits[k + 1]>>
                  ELSE <<Digits[(k \div 10) + 1], Digits[(k % 10) + 1]>>

(***************************************************************************)
(* POST /api/phase5/answer (server.js:836-869)                             *)
\* answer.toString() of a string, a number or an array (the elements'
\* strings joined by commas, nothing for a null or undefined element)
RECURSIVE AnswerToString(_)
AnswerToString(v) ==
    CASE v.t = "str" -> v.s
      [] v.t = "num" -> NumToString(v.n)
      [] v.t = "arr" ->
            IF v.s = <<>> THEN <<>>
            ELSE LET head == IF v.s[1].t \in {"undef", "null"} THEN <<>>
                             ELSE AnswerToString(v.s[1])
                 IN  IF Len(v.s) = 1 THEN head
                     ELSE head \o <<",">> \o AnswerToString(Arr(Tail(v.s)))

(***************************************************************************)
Phase5AnswerOutcome_Records(r) ==
    LET team == getTeamById(r.teamId) IN
    IF team = Null
    THEN Outcome(Error(404, "Team not found"), teamsDB)
    ELSE IF NotOnPhase(team, 5)
    THEN Outcome(Error(400, "Not on Phase 5"), teamsDB)
    ELSE Outcome(Ok([success |-> TRUE, correct |-> TRUE]),
                 saveTeam(r.teamId, [phase5 |-> [answered |-> TRUE]]))

Phase5AnswerOutcome(r) ==
    LET team == getTeamById(r.teamId)
        at == FindRiddle(r.riddleId)
    IN
    IF team = Null
    THEN Outcome(Error(404, "Team not found"), teamsDB)
    ELSE IF NotOnPhase(team, 5)
    THEN Outcome(Error(400, "Not on Phase 5"), teamsDB)
    ELSE IF at = 0
    THEN Outcome(Error(400, "Invalid riddle"), teamsDB)
    ELSE IF phase5Riddles[at].type = "mcq"
    THEN Outcome(Ok([success |-> TRUE,
                     correct |-> (r.answer = Num(phase5Riddles[at].correctAnswer))]),
                 teamsDB)
    ELSE IF r.answer.t \in {"undef", "null"}
    THEN Outcome(Error(500, "Server error"), teamsDB)
    ELSE Outcome(Ok([success |-> TRUE,
                     correct |-> AcceptedText(phase5Riddles[at], AnswerToString(r.answer))]),
                 teamsDB)

S_bldg2_padded == <<" ","b","L","d","G","2"," ">>
S_bldg3 == <<"b","l","d","g"," ","3">>

Phase5AnswerRequests ==
    {[op |-> "phase5/answer", teamId |-> tid, riddleId |-> rid, answer |-> a] :
        tid \in TeamIdInputs,
        rid \in {Num(1), Num(3), Num(4), Str(<<"1">>)},
        a \in {Num(2), Str(<<"2">>), Str(S_bldg2_padded), Arr(<<Str(S_bldg2)>>), Undefined}}

Phase5Answer ==
    \E r \in Phase5AnswerRequests : Handle(r, Phase5AnswerOutcome(r)) /\ UNCHANGED nextId

(***************************************************************************)
(* POST /api/phase5/complete (server.js:872-931)                           *)
(***************************************************************************)
\* the riddle an entry's key resolves to: find(r => r.id === parseInt(riddleId))
RiddleOfKey(key) ==
    LET parsed == ParseInt(key)
    IN  IF parsed.nan THEN 0 ELSE FindRiddle(Num(parsed.n))

\* whether the entry (key, ans) adds one to serverScore (a null entry adds
\* nothing: it throws, see EntryThrows)
EntryCounts(key, ans) ==
    LET at == RiddleOfKey(key) IN
    /\ at # 0
    /\ ans # Null
    /\ \/ /\ phase5Riddles[at].type = "mcq"
          /\ ans.answer = Num(phase5Riddles[at].correctAnswer)
       \/ /\ phase5Riddles[at].type = "text"
          /\ ans.answer.t = "str"
          /\ AcceptedText(phase5Riddles[at], ans.answer.s)

\* reading ans.answer of a null entry throws, once its riddle is found
EntryThrows(key, ans) == RiddleOfKey(key) # 0 /\ ans = Null

\* serverScore after Object.entries(answers).forEach(...)
ServerScore(answers) ==
    IF answers.t = "obj"
    THEN Cardinality({key \in DOMAIN answers.s : EntryCounts(key, answers.s[key])})
    ELSE 0

\* the score phase5/complete decides on: recomputed from the answers, the
\* request's own score field is not read
Phase5FinalScore_TrustClient(r) ==
    IF r.score.t = "num" THEN r.score.n ELSE ServerScore(r.answers)

Phase5FinalScore(r) == ServerScore(r.answers)

\* if (serverScore < totalRiddles) the completion fails
Phase5Passed(serverScore) == ~(serverScore < Len(phase5Riddles))

Phase5Update == [phase5 |-> [completed |-> TRUE], currentPhase |-> 6]

Phase5CompleteOutcome(r) ==
    LET team == getTeamById(r.teamId)
        serverScore == Phase5FinalScore(r)
        totalRiddles == Len(phase5Riddles)
    IN
    IF team = Null
    THEN Outcome(Error(404, "Team not found"), teamsDB)
    ELSE IF NotOnPhase(team, 5)
    THEN Outcome(Error(400, "Not on Phase 5"), teamsDB)
    ELSE IF r.answers.t = "obj"
            /\ \E key \in DOMAIN r.answers.s : EntryThrows(key, r.answers.s[key])
    THEN Outcome(Error(500, "Server error"), teamsDB)
    ELSE IF ~Phase5Passed(serverScore)
    THEN Outcome(Ok([success |-> FALSE, score |-> serverScore, total |-> totalRiddles,
                     message |-> "All challenges must be correct to pass. Try again!"]),
                 teamsDB)
    ELSE Outcome(Ok([success |-> TRUE, score |-> serverScore,
                     message |-> "Phase 5 completed! Proceed to the final phase."]),
                 saveTeam(r.teamId, Phase5Update))

Ans(v) == [answer |-> v]

\* the object with the given keys, each holding pick[key]
AnswersObject(keys, pick) == Obj([key \in keys |-> pick[key]])

\* answers objects under the keys "1", "2", "3": per riddle a right answer,
\* a wrong one or no entry
Phase5PlainAnswers ==
    LET right == (<<"1">> :> Ans(Num(2))) @@ (<<"2">> :> Ans(Num(2)))
                 @@ (<<"3">> :> Ans(Str(S_bldg2_padded)))
        wrong == (<<"1">> :> Ans(Str(<<"2">>))) @@ (<<"2">> :> Ans(Num(0)))
                 @@ (<<"3">> :> Ans(Str(S_bldg3)))
    IN  {AnswersObject(good \cup bad,
                       [key \in good \cup bad |-> IF key \in good THEN right[key]
                                                  ELSE wrong[key]]) :
            good \in SUBSET {<<"1">>, <<"2">>, <<"3">>},
            bad \in SUBSET {<<"1">>, <<"2">>, <<"3">>}}

\* answers objects whose keys are not the plain riddle ids: several keys
\* that parseInt resolves to one riddle, a key that resolves to none, a
\* null entry, a number for the text riddle
Phase5OddAnswers ==
    {Obj((<<"1">> :> Ans(Num(2))) @@ (<<"0","1">> :> Ans(Num(2)))
         @@ (<<"1","x">> :> Ans(Num(2)))),
     Obj((<<"1">> :> Ans(Num(2))) @@ (<<" ","2">> :> Ans(Num(2)))
         @@ (<<"3",".","0">> :> Ans(Str(S_BLDG_2)))),
     Obj((<<"1">> :> Ans(Num(2))) @@ (<<"2">> :> Ans(Num(2)))
         @@ (<<"x","3">> :> Ans(Str(S_BLDG_2)))),
     Obj((<<"1">> :> Ans(Num(2))) @@ (<<"2">> :> Ans(Num(2)))
         @@ (<<"4">> :> Ans(Num(2)))),
     Obj((<<"1">> :> Ans(Num(2))) @@ (<<"2">> :> Ans(Num(2))) @@ (<<"3">> :> Null)),
     Obj((<<"1">> :> Ans(Num(2))) @@ (<<"2">> :> Ans(Num(2)))
         @@ (<<"3">> :> Ans(Num(2)))),
     Undefined}

Phase5CompleteRequests ==
    {[op |-> "phase5/complete", teamId |-> tid, answers |-> a, score |-> sc] :
        tid \in TeamIdInputs,
        a \in Phase5PlainAnswers \cup Phase5OddAnswers,
        sc \in {Undefined, Num(3)}}

Phase5CompleteOf(requests) ==
    \E r \in requests : Handle(r, Phase5CompleteOutcome(r)) /\ UNCHANGED nextId

Phase5Complete == Phase5CompleteOf(Phase5CompleteRequests)

(***************************************************************************)
(* POST /api/phase6/submit (server.js:934-971)                             *)
(***************************************************************************)
\* locationAnswer: locationAnswer || ''
Phase6LocationAnswer_Raw(locationAnswer) == locationAnswer

Phase6LocationAnswer(locationAnswer) ==
    IF Truthy(locationAnswer) THEN locationAnswer ELSE Str(<<>>)

Phase6Update(r) ==
    [phase6 |-> [locationAnswer |-> Phase6LocationAnswer(r.locationAnswer),
                 completed |-> TRUE],
     currentPhase |-> 7]

Phase6SubmitOutcome(r) ==
    LET team == getTeamById(r.teamId) IN
    IF team = Null
    THEN Outcome(Error(404, "Team not found"), teamsDB)
    ELSE IF NotOnPhase(team, 6)
    THEN Outcome(Error(400, "Not on Phase 6"), teamsDB)
    ELSE IF AlreadyCompleted(team, "phase6")
    THEN Outcome(Error(400, "Already completed"), teamsDB)
    ELSE Outcome(Ok([success |-> TRUE,
                     message |-> "Congratulations! You have completed CodeHunt-2026!",
                     teamName |-> team.teamName, teamLeader |-> team.teamLeader]),
                 saveTeam(r.teamId, Phase6Update(r)))

Phase6Requests ==
    {[op |-> "phase6/submit", teamId |-> tid, locationAnswer |-> loc] :
        tid \in TeamIdInputs,
        loc \in {Str(<<"l","a","b">>), Str(<<>>), Undefined, Num(0)}}

Phase6SubmitOf(requests) ==
    \E r \in requests : Handle(r, Phase6SubmitOutcome(r)) /\ UNCHANGED nextId

Phase6Submit == Phase6SubmitOf(Phase6Requests)

(***************************************************************************)
(* Reads: GET /api/teams/:teamName, the content endpoints, the             *)
(* leaderboard and the administrative listings (server.js:188-263,         *)
(* 556-576, 691-699, 769-771, 825-833, 974-1019)                           *)
(***************************************************************************)
\* the keys of a set of identifiers in Map insertion order, which is the
\* order the identifiers were generated in
RECURSIVE InOrder(_)
InOrder(ids) ==
    IF ids = {} THEN <<>> ELSE <<SetMin(ids)>> \o InOrder(ids \ {SetMin(ids)})

\* completedTeams.slice(0, 10)
LeaderboardLimit == 10

getAllTeams == [i \in DOMAIN InOrder(DOMAIN teamsDB) |-> teamsDB[InOrder(DOMAIN teamsDB)[i]]]

getCompletedTeams_NoLimit ==
    LET done == InOrder({id \in DOMAIN teamsDB : teamsDB[id].phase6.completed})
    IN  [i \in DOMAIN done |->
            [teamId |-> teamsDB[done[i]].teamId,
             teamName |-> teamsDB[done[i]].teamName,
             teamLeader |-> teamsDB[done[i]].teamLeader]]

getCompletedTeams ==
    LET done == InOrder({id \in DOMAIN teamsDB : teamsDB[id].phase6.completed})
        completedTeams == [i \in DOMAIN done |->
                              [teamId |-> teamsDB[done[i]].teamId,
                               teamName |-> teamsDB[done[i]].teamName,
                               teamLeader |-> teamsDB[done[i]].teamLeader]]
    IN  SubSeq(completedTeams, 1,
               IF Len(completedTeams) < LeaderboardLimit THEN Len(completedTeams)
               ELSE LeaderboardLimit)

\* if (team.phaseN?.completed) stats.phaseN++
Counted(team, phase) ==
    IF phase \in DOMAIN team /\ "completed" \in DOMAIN team[phase] /\ team[phase].completed
    THEN 1 ELSE 0

\* the counters after the loop has visited the first n teams
RECURSIVE StatsLoop(_, _)
StatsLoop(teams, n) ==
    IF n = 0
    THEN [totalTeams |-> 0, phase1 |-> 0, phase2 |-> 0, phase3 |-> 0,
          phase4 |-> 0, phase5 |-> 0, phase6 |-> 0]
    ELSE LET stats == StatsLoop(teams, n - 1)
             team == teams[n]
         IN  [totalTeams |-> stats.totalTeams + 1,
              phase1 |-> stats.phase1 + Counted(team, "phase1"),
              phase2 |-> stats.phase2 + Counted(team, "phase2"),
              phase3 |-> stats.phase3 + Counted(team, "phase3"),
              phase4 |-> stats.phase4 + Counted(team, "phase4"),
              phase5 |-> stats.phase5 + Counted(team, "phase5"),
              phase6 |-> stats.phase6 + Counted(team, "phase6")]

\* one counter per phase taken from how far each team has got
getStats_ByCurrentPhase ==
    [totalTeams |-> Cardinality(DOMAIN teamsDB)]
    @@ [ph \in {"phase1", "phase2", "phase3", "phase4", "phase5", "phase6"} |->
           Cardinality({id \in DOMAIN teamsDB :
                           \E N \in 1..6 : /\ ph = <<"phase1", "phase2", "phase3", "phase4",
                                                     "phase5", "phase6">>[N]
                                           /\ teamsDB[id].currentPhase > N})]

getStats == StatsLoop(getAllTeams, Len(getAllTeams))

\* questions.map(q => ({id: q.id, ...})): the items without their keys
WithoutAnswers(items) == [i \in DOMAIN items |-> [id |-> items[i].id]]

GetTeamOutcome_First(r) ==
    IF DOMAIN teamsDB = {}
    THEN Outcome(Error(404, "Team not found"), teamsDB)
    ELSE Outcome(Ok(teamsDB[SetMin(DOMAIN teamsDB)]), teamsDB)

GetTeamOutcome(r) ==
    IF getTeamByName(r.teamName.s) = Null
    THEN Outcome(Error(404, "Team not found"), teamsDB)
    ELSE Outcome(Ok(getTeamByName(r.teamName.s)), teamsDB)

S_Gamma == <<"G","a","m","m","a">>

GetTeamOf(names) ==
    \E nm \in names :
        LET r == [op |-> "teams/get", teamName |-> nm] IN
        Handle(r, GetTeamOutcome(r)) /\ UNCHANGED nextId

GetTeam == GetTeamOf(TeamNameInputs \cup {Str(S_Gamma)})

ReadOutcome(r) ==
    CASE r.op = "phase2/questions" -> Outcome(Ok(WithoutAnswers(phase2Questions)), teamsDB)
      [] r.op = "phase3/questions" -> Outcome(Ok(WithoutAnswers(phase3Questions)), teamsDB)
      [] r.op = "phase4/code" -> Outcome(Ok([code |-> "phase4Code"]), teamsDB)
      [] r.op = "phase5/riddles" -> Outcome(Ok(WithoutAnswers(phase5Riddles)), teamsDB)
      [] r.op = "leaderboard" -> Outcome(Ok(getCompletedTeams), teamsDB)
      [] r.op = "admin/teams" -> Outcome(Ok(getAllTeams), teamsDB)
      [] r.op = "admin/stats" ->
            Outcome(Ok([totalTeams |-> getStats.totalTeams,
                        phaseStats |-> [ph \in {"phase1", "phase2", "phase3", "phase4",
                                                "phase5", "phase6"} |-> getStats[ph]]]),
                    teamsDB)

Read ==
    \E o \in {"phase2/questions", "phase3/questions", "phase4/code", "phase5/riddles",
              "leaderboard", "admin/teams", "admin/stats"} :
        LET r == [op |-> o] IN
        Handle(r, ReadOutcome(r)) /\ UNCHANGED nextId

(***************************************************************************)
(* DELETE /api/admin/teams/:teamId, /api/admin/clear-all                   *)
(* (server.js:1022-1058)                                                   *)
(***************************************************************************)
AdminDeleteTeam ==
    \E tid \in TeamIdInputs :
        /\ Handle([op |-> "admin/delete", teamId |-> tid],
                  Outcome(Ok([success |-> TRUE, message |-> "Team deleted"]),
                          [id \in DOMAIN teamsDB \ {tid.n} |-> teamsDB[id]]))
        /\ UNCHANGED nextId

AdminClearAll ==
    /\ Handle([op |-> "admin/clear-all"],
              Outcome(Ok([success |-> TRUE, message |-> "All teams cleared"]),
                      EmptyObject))
    /\ UNCHANGED nextId

(***************************************************************************)
(* The server.                                                             *)
(***************************************************************************)
(***************************************************************************)
(* The browser pages: LandingPage (unnamed/part_002), Phase1               *)
(* (src/pages/Phase1.jsx) and Phase5 (unnamed/part_000).  client holds the *)
(* team the pages are given and the useState values of Phase1 and Phase5.  *)
(* A fetch and the code that follows its response are one step with the    *)
(* server's handling of the request.                                       *)
(***************************************************************************)
\* no setTimeout callback is waiting
NoTimer == [set |-> FALSE]

ClientInit ==
    [team |-> Null,
     success |-> FALSE, errors |-> "",
     currentRiddle |-> 0, answers |-> EmptyObject, submitting |-> FALSE,
     completed |-> FALSE, failed |-> FALSE, score |-> 0,
     timer |-> NoTimer]

\* LandingPage.handleResume: fetch(teams/<name>), setTeam(data) if res.ok
handleResume ==
    \E nm \in {Str(S_Alpha)} :
        LET r == [op |-> "teams/get", teamName |-> nm]
            out == GetTeamOutcome(r)
        IN  /\ Serve(r, out)
            /\ client' = IF out.res.status = 200
                         THEN [client EXCEPT !.team = out.res.body]
                         ELSE client
            /\ UNCHANGED nextId

\* Phase1: the fields of the form; there is no theme among them
Phase1Forms ==
    {[teamName |-> Str(S_Alpha), teamLeader |-> Str(<<"L">>), teamMembers |-> Str(mb),
      email |-> Str(S_mail), aiPrompt |-> Str(p)] :
        mb \in {S_members3, S_members2}, p \in {S_prompt_upper, S_prompt_lower, S_prompt_none}}

\* Phase1.validateForm
validateForm(formData) ==
    /\ Trim(formData.teamName.s) # <<>>
    /\ Trim(formData.teamLeader.s) # <<>>
    /\ Len(ParseMembers(formData.teamMembers.s)) \in 3..4
    /\ emailRegexTest(formData.email.s)
    /\ Includes(ToUpperCase(formData.aiPrompt.s), S_VU2050)

\* JSON.stringify(formData) as the register handler reads it: theme is
\* undefined
Phase1RegisterRequest(formData) ==
    [op |-> "register", teamName |-> formData.teamName, teamLeader |-> formData.teamLeader,
     teamMembers |-> formData.teamMembers, email |-> formData.email, theme |-> "",
     aiPrompt |-> formData.aiPrompt]

\* Phase1.handleSubmit on the form page: the registration and, if res.ok,
\* the fetch of the team, setTeam and setSuccess
handleSubmit ==
    \E formData \in Phase1Forms :
        LET r == Phase1RegisterRequest(formData)
            out == RegisterOutcome(r)
        IN  /\ ~(client.team # Null /\ client.team.currentPhase > 1)
            /\ ~client.success
            /\ validateForm(formData)
            /\ Serve(r, out)
            /\ IF out.res.status = 200
               THEN /\ nextId <= MaxTeams
                    /\ nextId' = nextId + 1
                    /\ client' = [client EXCEPT
                                    !.team = getTeamByName(formData.teamName.s)',
                                    !.success = TRUE]
               ELSE /\ nextId' = nextId
                    /\ client' = [client EXCEPT !.errors = out.res.body.error]

\* Phase5: the riddles the page shows, in order (fetched once from
\* /api/phase5/riddles), and what can be chosen or typed for one
riddles == WithoutAnswers(phase5Riddles)

Phase5Choices(riddle) ==
    IF riddle.id = 3 THEN {Str(S_bldg2), Str(S_bldg3)} ELSE {Num(2), Num(0)}

\* an entry of answers: { answer, correct: data.correct }
AnswerEntry(answer, response) ==
    IF response.status = 200 THEN [answer |-> answer, correct |-> response.body.correct]
    ELSE [answer |-> answer]

\* Phase5.checkAnswer up to its setTimeout: the riddle page is shown, the
\* riddle has no answer yet.  The callback keeps the currentRiddle and the
\* answers of the render the click was made on.
checkAnswer ==
    \E answer \in Phase5Choices(riddles[client.currentRiddle + 1]) :
        LET riddle == riddles[client.currentRiddle + 1]
            r == [op |-> "phase5/answer", teamId |-> client.team.teamId,
                  riddleId |-> Num(riddle.id), answer |-> answer]
            out == Phase5AnswerOutcome(r)
        IN  /\ client.team # Null
            /\ client.team.currentPhase = 5
            /\ ~client.completed /\ ~client.failed
            /\ ~client.submitting
            /\ riddle.id \notin DOMAIN client.answers
            /\ Serve(r, out)
            /\ client' = [client EXCEPT
                  !.submitting = TRUE,
                  !.answers = [id \in DOMAIN client.answers \cup {riddle.id} |->
                                  IF id = riddle.id THEN AnswerEntry(answer, out.res)
                                  ELSE client.answers[id]],
                  !.score = IF out.res.status = 200 /\ out.res.body.correct
                            THEN client.score + 1 ELSE client.score,
                  !.timer = [set |-> TRUE, currentRiddle |-> client.currentRiddle,
                             answers |-> client.answers]]
            /\ UNCHANGED nextId

\* the callback when the riddle answered was not the last one
nextRiddle ==
    /\ client.timer.set
    /\ client.timer.currentRiddle < Len(riddles) - 1
    /\ client' = [client EXCEPT !.currentRiddle = client.currentRiddle + 1,
                                !.submitting = FALSE, !.timer = NoTimer]
    /\ UNCHANGED <<teamsDB, nextId, req, res, inflight>>

\* JSON.stringify(answers): the keys are the riddle ids as text
AnswersBody(answers) ==
    Obj([key \in {NumToString(id) : id \in DOMAIN answers} |->
            answers[CHOOSE id \in DOMAIN answers : NumToString(id) = key]])

\* the callback after the last riddle: Phase5.submitPhaseCompletion with
\* the answers of the callback's render
submitPhaseCompletion ==
    LET r == [op |-> "phase5/complete", teamId |-> client.team.teamId,
              answers |-> AnswersBody(client.timer.answers)]
        out == Phase5CompleteOutcome(r)
    IN  /\ client.timer.set
        /\ ~(client.timer.currentRiddle < Len(riddles) - 1)
        /\ Serve(r, out)
        /\ client' =
              IF out.res.status = 200 /\ out.res.body.success
              THEN [client EXCEPT !.score = out.res.body.score, !.completed = TRUE,
                                  !.team = getTeamByName(client.team.teamName)',
                                  !.submitting = FALSE, !.timer = NoTimer]
              ELSE [client EXCEPT !.score = IF out.res.status = 200
                                            THEN out.res.body.score ELSE 0,
                                  !.failed = TRUE,
                                  !.submitting = FALSE, !.timer = NoTimer]
        /\ UNCHANGED nextId

\* the Try Again button of the failed page
tryAgain ==
    /\ client.failed
    /\ client' = [client EXCEPT !.failed = FALSE, !.answers = EmptyObject,
                                !.currentRiddle = 0, !.score = 0]
    /\ UNCHANGED <<teamsDB, nextId, req, res, inflight>>

Init ==
    /\ teamsDB = EmptyObject
    /\ nextId = 1
    /\ req = NoRequest
    /\ res = NoResponse
    /\ inflight = NoneInflight
    /\ client = ClientInit

Next ==
    \/ Register
    \/ Phase1Submit
    \/ Phase2CheckAnswer
    \/ Phase2Complete
    \/ Phase2Submit
    \/ Phase3Submit
    \/ Phase4Submit
    \/ Phase5Answer
    \/ Phase5Complete
    \/ Phase6Submit
    \/ GetTeam
    \/ Read
    \/ AdminDeleteTeam
    \/ AdminClearAll
    \/ Respond

Spec == Init /\ [][Next]_vars

(***************************************************************************)
(* The server with several teams: registrations under two names, in        *)
(* several spellings, the first phase, lookups and the administrative      *)
(* deletes.                                                                *)
(***************************************************************************)
S_Beta == <<"B","e","t","a">>
S_beta == <<"b","e","t","a">>

TeamsNameInputs == {Str(S_Alpha), Str(S_ALPHA), Str(S_alpha), Str(S_Beta), Str(S_beta)}

\* well-formed registrations, and malformed ones under the same names
TeamsRegisterRequests ==
    {RegisterRequest(nm, mb, Str(S_mail), "AI in Healthcare") :
        nm \in TeamsNameInputs, mb \in {Str(S_members3), Str(S_members2)}}
    \cup
    {RegisterRequest(nm, Str(S_members4), Str(S_mail_noat), "AI in Healthcare") :
        nm \in {Str(S_ALPHA), Str(S_beta)}}

RegisterTeams == RegisterOf(TeamsRegisterRequests)

GetTeams == GetTeamOf(TeamsNameInputs \cup {Str(S_Gamma)})

NextTeams ==
    \/ RegisterTeams
    \/ Phase1Submit
    \/ GetTeams
    \/ AdminDeleteTeam
    \/ AdminClearAll
    \/ Respond

SpecTeams == Init /\ [][NextTeams]_vars

(***************************************************************************)
(* The server when nothing is assumed of the generated identifier:         *)
(* 'TEAM_' + Date.now() + '_' + Math.random()... is any identifier, one in *)
(* use included.  The handler passes it to createTeam unchecked.           *)
(***************************************************************************)
IdsRegisterRequests ==
    {RegisterRequest(nm, mb, Str(S_mail), "AI in Healthcare") :
        nm \in {Str(S_Alpha), Str(S_Beta)}, mb \in {Str(S_members3), Str(S_members4)}}

RegisterAnyId ==
    \E r \in IdsRegisterRequests : \E k \in 1..MaxTeams :
        /\ Handle(r, RegisterOutcomeAt(r, Id(k)))
        /\ nextId' = IF k >= nextId THEN k + 1 ELSE nextId

NextIds ==
    \/ RegisterAnyId
    \/ Phase1One
    \/ AdminDeleteTeam
    \/ Respond

SpecIds == Init /\ [][NextIds]_vars

(***************************************************************************)
(* The listings (leaderboard, admin listing, statistics) read from a store *)
(* of many teams.  The stores are those a run of registrations and         *)
(* submissions leaves: teams 1..n, each either just registered or through  *)
(* all six phases.                                                         *)
(***************************************************************************)
\* the name team k registers under
BoardName(k) == <<"t">> \o NumToString(k)

BoardRegistration(k) ==
    RegisterRequest(Str(BoardName(k)), Str(S_members3), Str(S_mail), "AI in Healthcare")

\* the record of team k after the six passing submissions
FinishedTeam(k) ==
    deepMerge(NewTeam(Id(k), BoardRegistration(k), ParseMembers(S_members3)),
              [phase1 |-> [aiPrompt |-> Str(S_prompt_upper), completed |-> TRUE],
               phase2 |-> [completed |-> TRUE],
               phase3 |-> [completed |-> TRUE],
               phase4 |-> [completed |-> TRUE],
               phase5 |-> [completed |-> TRUE],
               phase6 |-> [locationAnswer |-> Str(<<>>), completed |-> TRUE],
               currentPhase |-> 7])

BoardStores ==
    UNION {{[k \in 1..n |->
                IF k \in finished THEN FinishedTeam(k)
                ELSE NewTeam(Id(k), BoardRegistration(k), ParseMembers(S_members3))] :
             finished \in SUBSET (1..n)} : n \in 0..MaxBoardTeams}

InitBoard ==
    /\ teamsDB \in BoardStores
    /\ nextId = Cardinality(DOMAIN teamsDB) + 1
    /\ req = NoRequest
    /\ res = NoResponse
    /\ inflight = NoneInflight
    /\ client = ClientInit

NextBoard ==
    \/ Read
    \/ Respond

SpecBoard == InitBoard /\ [][NextBoard]_vars

(***************************************************************************)
(* The server on the durable backend, where a handler's lookup             *)
(* (await getTeamById) and its update (await saveTeam) are separate steps  *)
(* and the steps of several handlers interleave.  One team is registered   *)
(* and taken to phase 3 by whole handlers; phase3/submit runs in two       *)
(* steps.                                                                  *)
(***************************************************************************)
Slots == 1..MaxInflight

ConcurrentRegisterRequests ==
    {RegisterRequest(Str(S_Alpha), Str(S_members3), Str(S_mail), "AI in Healthcare")}

RegisterOne == RegisterOf(ConcurrentRegisterRequests)

\* phase-3 answers with five, three and two right positions
ConcurrentPhase3Requests ==
    {[op |-> "phase3/submit", teamId |-> tid,
      answers |-> QuizAnswers(phase3Questions, wrong, "other")] :
        tid \in TeamIdInputs, wrong \in {{}, {1, 2}, {1, 2, 3}}}

\* db.collection('teams').doc(teamId).update(flatData): the merge, on a
\* document that exists; update() rejects when there is none
DocExists_Upsert(teamId) == TRUE

DocExists(teamId) == teamId.n \in DOMAIN teamsDB

\* const team = await getTeamById(teamId), and the handler up to its next
\* await: either it has answered, or it goes on to saveTeam
Begin(r, d) ==
    \E s \in Slots :
        /\ req = NoRequest
        /\ inflight[s] = Idle
        /\ \A s0 \in Slots : s0 < s => inflight[s0] # Idle
        /\ inflight' = [inflight EXCEPT ![s] =
                IF d.update = NoUpdate
                THEN [state |-> "done", r |-> r, res |-> d.res]
                ELSE [state |-> "saving", r |-> r, res |-> d.res, update |-> d.update]]
        /\ UNCHANGED <<teamsDB, nextId, req, res, client>>

Phase3Begin ==
    \E r \in ConcurrentPhase3Requests :
        Begin(r, Phase3SubmitDecision(getTeamById(r.teamId), r))

\* phase-2 answers with ten and nine right positions
ConcurrentPhase2Requests ==
    {[op |-> "phase2/submit", teamId |-> tid,
      answers |-> QuizAnswers(phase2Questions, wrong, "other")] :
        tid \in TeamIdInputs, wrong \in {{}, {1}}}

Phase2Begin ==
    \E r \in ConcurrentPhase2Requests :
        Begin(r, Phase2SubmitDecision(getTeamById(r.teamId), r))

\* await saveTeam(teamId, updateData), then res.json; a rejected update
\* ends in the handler's catch
Save(op) ==
    \E s \in Slots :
        /\ req = NoRequest
        /\ inflight[s].state = "saving"
        /\ inflight[s].r.op = op
        /\ IF DocExists(inflight[s].r.teamId)
           THEN /\ teamsDB' = saveTeam(inflight[s].r.teamId, inflight[s].update)
                /\ inflight' = [inflight EXCEPT ![s] =
                        [state |-> "done", r |-> inflight[s].r, res |-> inflight[s].res]]
           ELSE /\ teamsDB' = teamsDB
                /\ inflight' = [inflight EXCEPT ![s] =
                        [state |-> "done", r |-> inflight[s].r,
                         res |-> Error(500, "Server error")]]
        /\ UNCHANGED <<nextId, req, res, client>>

Phase3Save == Save("phase3/submit")

Phase2Save == Save("phase2/submit")

\* the response of a handler in flight goes back to the client
InflightRespond ==
    \E s \in Slots :
        /\ req = NoRequest
        /\ inflight[s].state = "done"
        /\ inflight' = [inflight EXCEPT ![s] = Idle]
        /\ UNCHANGED <<teamsDB, nextId, req, res, client>>

NextConcurrent ==
    \/ RegisterOne
    \/ Phase1One
    \/ Phase2Complete
    \/ Phase2Begin
    \/ Phase2Save
    \/ Phase3Begin
    \/ Phase3Save
    \/ InflightRespond
    \/ Respond

SpecConcurrent == Init /\ [][NextConcurrent]_vars

(***************************************************************************)
(* Registrations, phase-1 submissions and administrative deletes with the  *)
(* awaits of the durable backend as separate steps: the name lookup and    *)
(* the set() of a registration, the lookup and the update() of a           *)
(* submission.                                                             *)
(***************************************************************************)
RaceRegisterRequests ==
    {RegisterRequest(Str(nm), Str(S_members3), Str(S_mail), "AI in Healthcare") :
        nm \in {S_Alpha, S_ALPHA}}

\* const existingTeam = await getTeamByName(teamName), and the handler up
\* to await createTeam: the identifier is generated and the record built
RegisterBegin ==
    \E s \in Slots : \E r \in RaceRegisterRequests :
        LET out == RegisterOutcome(r) IN
        /\ req = NoRequest
        /\ inflight[s] = Idle
        /\ \A s0 \in Slots : s0 < s => inflight[s0] # Idle
        /\ IF out.res.status = 200
           THEN /\ nextId <= MaxTeams
                /\ nextId' = nextId + 1
                /\ inflight' = [inflight EXCEPT ![s] =
                        [state |-> "creating", r |-> r, res |-> out.res,
                         team |-> out.res.body.team]]
           ELSE /\ nextId' = nextId
                /\ inflight' = [inflight EXCEPT ![s] =
                        [state |-> "done", r |-> r, res |-> out.res]]
        /\ UNCHANGED <<teamsDB, req, res, client>>

\* await createTeam(teamId, team): doc(teamId).set(teamData)
RegisterCreate ==
    \E s \in Slots :
        /\ req = NoRequest
        /\ inflight[s].state = "creating"
        /\ teamsDB' = createTeam(inflight[s].team.teamId, inflight[s].team)
        /\ inflight' = [inflight EXCEPT ![s] =
                [state |-> "done", r |-> inflight[s].r, res |-> inflight[s].res]]
        /\ UNCHANGED <<nextId, req, res, client>>

RacePhase1Requests ==
    {[op |-> "phase1/submit", teamId |-> tid, aiPrompt |-> Str(S_prompt_upper)] :
        tid \in TeamIdInputs}

Phase1Begin ==
    \E r \in RacePhase1Requests : Begin(r, Phase1Decision(getTeamById(r.teamId), r))

Phase1Save == Save("phase1/submit")

NextRace ==
    \/ RegisterBegin
    \/ RegisterCreate
    \/ Phase1Begin
    \/ Phase1Save
    \/ AdminDeleteTeam
    \/ InflightRespond
    \/ Respond

SpecRace == Init /\ [][NextRace]_vars

(***************************************************************************)
(* Two teams side by side, each taken through the six phases: what a       *)
(* submission of one team does to its own record and to the other team's.  *)
(***************************************************************************)
FrameRegisterRequests ==
    {RegisterRequest(Str(nm), Str(S_members3), Str(S_mail), "AI in Healthcare") :
        nm \in {S_Alpha, S_Beta}}

RegisterFrame == RegisterOf(FrameRegisterRequests)

\* per phase, a submission that passes and one that does not
FramePhase4Requests ==
    {[op |-> "phase4/submit", teamId |-> tid, answer |-> a] :
        tid \in TeamIdInputs, a \in {Str(S_22_padded), Str(S_23)}}

FramePhase5Requests ==
    {[op |-> "phase5/complete", teamId |-> tid, answers |-> a, score |-> Undefined] :
        tid \in TeamIdInputs,
        a \in {Obj((<<"1">> :> Ans(Num(2))) @@ (<<"2">> :> Ans(Num(2)))
                   @@ (<<"3">> :> Ans(Str(S_bldg2_padded)))),
               Obj((<<"1">> :> Ans(Num(2))) @@ (<<"2">> :> Ans(Num(2))))}}

FramePhase6Requests ==
    {[op |-> "phase6/submit", teamId |-> tid,
      locationAnswer |-> Str(<<"l","a","b">>)] : tid \in TeamIdInputs}

NextFrame ==
    \/ RegisterFrame
    \/ Phase1One
    \/ Phase2Complete
    \/ Phase2SubmitOf(ConcurrentPhase2Requests)
    \/ Phase3SubmitOf(ConcurrentPhase3Requests)
    \/ Phase4SubmitOf(FramePhase4Requests)
    \/ Phase5CompleteOf(FramePhase5Requests)
    \/ Phase6SubmitOf(FramePhase6Requests)
    \/ Read
    \/ Respond

SpecFrame == Init /\ [][NextFrame]_vars

(***************************************************************************)
(* A team that keeps going: every request gets its answer, and a stored    *)
(* team sends, again and again, a passing submission to the handler of the *)
(* phase its currentPhase names, between submissions that fail.            *)
(***************************************************************************)
\* the passing submission of the model for phase N
PassingSubmission(N, tid) ==
    CASE N = 1 -> [op |-> "phase1/submit", teamId |-> tid, aiPrompt |-> Str(S_prompt_upper)]
      [] N = 2 -> [op |-> "phase2/submit", teamId |-> tid,
                   answers |-> QuizAnswers(phase2Questions, {}, "other")]
      [] N = 3 -> [op |-> "phase3/submit", teamId |-> tid,
                   answers |-> QuizAnswers(phase3Questions, {}, "other")]
      [] N = 4 -> [op |-> "phase4/submit", teamId |-> tid, answer |-> Str(S_22_padded)]
      [] N = 5 -> [op |-> "phase5/complete", teamId |-> tid,
                   answers |-> Obj((<<"1">> :> Ans(Num(2))) @@ (<<"2">> :> Ans(Num(2)))
                                   @@ (<<"3">> :> Ans(Str(S_bldg2_padded)))),
                   score |-> Undefined]
      [] N = 6 -> [op |-> "phase6/submit", teamId |-> tid,
                   locationAnswer |-> Str(<<"l","a","b">>)]

\* the submission handler a request is routed to
SubmissionOutcome(r) ==
    CASE r.op = "phase1/submit" -> Phase1Outcome(r)
      [] r.op = "phase2/submit" -> Phase2SubmitOutcome(r)
      [] r.op = "phase3/submit" -> Phase3SubmitOutcome(r)
      [] r.op = "phase4/submit" -> Phase4SubmitOutcome(r)
      [] r.op = "phase5/complete" -> Phase5CompleteOutcome(r)
      [] r.op = "phase6/submit" -> Phase6SubmitOutcome(r)

\* team id sends the passing submission of its current phase
PassCurrent(id) ==
    /\ id \in DOMAIN teamsDB
    /\ teamsDB[id].currentPhase \in 1..6
    /\ LET r == PassingSubmission(teamsDB[id].currentPhase, Id(id))
       IN  Handle(r, SubmissionOutcome(r)) /\ UNCHANGED nextId

\* a submission to the handler of the current phase that does not pass
\* (phase 6 has none)
FailingSubmission(N, tid) ==
    CASE N = 1 -> [op |-> "phase1/submit", teamId |-> tid, aiPrompt |-> Str(S_prompt_none)]
      [] N = 2 -> [op |-> "phase2/submit", teamId |-> tid,
                   answers |-> QuizAnswers(phase2Questions, {1}, "other")]
      [] N = 3 -> [op |-> "phase3/submit", teamId |-> tid,
                   answers |-> QuizAnswers(phase3Questions, {1, 2, 3}, "other")]
      [] N = 4 -> [op |-> "phase4/submit", teamId |-> tid, answer |-> Str(S_23)]
      [] N = 5 -> [op |-> "phase5/complete", teamId |-> tid,
                   answers |-> Obj((<<"1">> :> Ans(Num(2))) @@ (<<"2">> :> Ans(Num(2)))),
                   score |-> Undefined]

FailCurrent ==
    \E id \in DOMAIN teamsDB :
        /\ teamsDB[id].currentPhase \in 1..5
        /\ LET r == FailingSubmission(teamsDB[id].currentPhase, Id(id))
           IN  Handle(r, SubmissionOutcome(r)) /\ UNCHANGED nextId

PassCurrentSome == \E id \in 1..MaxTeams : PassCurrent(id)

NextLive ==
    \/ RegisterOne
    \/ PassCurrentSome
    \/ FailCurrent
    \/ Phase2Complete
    \/ Read
    \/ Respond

SpecLive ==
    /\ Init /\ [][NextLive]_vars
    /\ WF_vars(Respond)
    /\ \A id \in 1..MaxTeams : SF_vars(PassCurrent(id))

(***************************************************************************)
(* One team taken through the six phases, its phase-6 answer a text, an    *)
(* empty object or an object with a field: the updates saveTeam is given   *)
(* by the handlers.                                                        *)
(***************************************************************************)
BackendPhase6Requests ==
    {[op |-> "phase6/submit", teamId |-> tid, locationAnswer |-> loc] :
        tid \in TeamIdInputs,
        loc \in {Str(<<"l","a","b">>), Undefined, Obj(EmptyObject),
                 Obj("room" :> Num(2)),
                 Obj("at" :> Obj("room" :> Num(2)))}}

NextBackends ==
    \/ RegisterOne
    \/ Phase1One
    \/ Phase2Complete
    \/ Phase2SubmitOf(ConcurrentPhase2Requests)
    \/ Phase3SubmitOf(ConcurrentPhase3Requests)
    \/ Phase4SubmitOf(FramePhase4Requests)
    \/ Phase5CompleteOf(FramePhase5Requests)
    \/ Phase6SubmitOf(BackendPhase6Requests)
    \/ Respond

SpecBackends == Init /\ [][NextBackends]_vars

(***************************************************************************)
(* The pages against the server: a team registered by a client that sends  *)
(* a theme and taken to phase 5, the Phase1 form, the resume of the        *)
(* landing page and the Phase5 riddles.                                    *)
(***************************************************************************)
NextClient ==
    \/ RegisterOne
    \/ Phase1One
    \/ Phase2Complete
    \/ Phase3SubmitOf(ConcurrentPhase3Requests)
    \/ Phase4SubmitOf(FramePhase4Requests)
    \/ handleSubmit
    \/ handleResume
    \/ checkAnswer
    \/ nextRiddle
    \/ submitPhaseCompletion
    \/ tryAgain
    \/ Respond

SpecClient == Init /\ [][NextClient]_vars

(***************************************************************************)
(* Vocabulary of the properties.  In a step of a handler the unprimed      *)
(* store is the one the request found and the primed one the one it left;  *)
(* req' and res' are the request and its response.                         *)
(***************************************************************************)
PhaseKey(N) == <<"phase1", "phase2", "phase3", "phase4", "phase5", "phase6">>[N]

\* the submission handler of phase N
SubmitOp(N) == <<"phase1/submit", "phase2/submit", "phase3/submit", "phase4/submit",
                 "phase5/complete", "phase6/submit">>[N]

\* every handler that can complete phase N
CompletionOps(N) == IF N = 2 THEN {"phase2/submit", "phase2/complete"} ELSE {SubmitOp(N)}

\* this step answers a request of one of the given operations that names a
\* stored team
Answers(ops) ==
    /\ req = NoRequest
    /\ req'.op \in ops
    /\ req'.teamId.t = "id"
    /\ req'.teamId.n \in DOMAIN teamsDB

TeamBefore == teamsDB[req'.teamId.n]
TeamAfter == teamsDB'[req'.teamId.n]

Rejected == res'.status >= 400

\* the positions of a quiz at which the submitted array holds the right index
RightPositions(questions, answers) ==
    {i \in 0..(Len(questions) - 1) :
        /\ answers.t = "arr"
        /\ i + 1 \in DOMAIN answers.s
        /\ answers.s[i + 1].t = "num"
        /\ answers.s[i + 1].n = questions[i + 1].correctAnswer}

\* the riddles (by id) for which a submitted answers object holds a correct
\* answer under a key that resolves to the riddle
RiddlesAnswered(answers) ==
    {phase5Riddles[i].id : i \in
        {i \in DOMAIN phase5Riddles :
            /\ answers.t = "obj"
            /\ \E key \in DOMAIN answers.s :
                 /\ RiddleOfKey(key) = i
                 /\ EntryCounts(key, answers.s[key])}}

(***************************************************************************)
(* C1: for every phase N in 1..6 and every team whose currentPhase is not  *)
(* N, a request to phase N's submission handler is answered with an error  *)
(* and leaves the team record unchanged, whatever answers it carries.      *)
(* The code does not do this: phase2/submit never looks at currentPhase.   *)
(***************************************************************************)
C1_WrongPhaseRejected ==
    [][\A N \in 1..6 :
         (Answers({SubmitOp(N)}) /\ TeamBefore.currentPhase # N)
            => (Rejected /\ teamsDB' = teamsDB)]_vars

(***************************************************************************)
(* C2: for every phase N in 1..6, once phaseN.completed is true for a      *)
(* team, every later submission to phase N by that team, with any answer   *)
(* set, is rejected with an error and changes no stored field.             *)
(***************************************************************************)
C2_CompletedRejected ==
    [][\A N \in 1..6 :
         (Answers(CompletionOps(N)) /\ TeamBefore[PhaseKey(N)].completed)
            => (Rejected /\ teamsDB' = teamsDB)]_vars

\* a passing phase-5 answer set has been resubmitted by a team that had
\* completed phase 5, and was turned down
C2_Witness ==
    /\ req.op = "phase5/complete"
    /\ ServerScore(req.answers) = Len(phase5Riddles)
    /\ getTeamById(req.teamId) # Null
    /\ getTeamById(req.teamId).phase5.completed
    /\ res.status = 400

(***************************************************************************)
(* C3: every accepted passing submission changes the team's currentPhase   *)
(* from N to exactly N+1; no single request raises currentPhase by more    *)
(* than 1.  The code does not do this: phase2/submit and phase2/complete   *)
(* set currentPhase to 3 from whatever it was.                             *)
(***************************************************************************)
C3_AdvanceByOne ==
    [][\A id \in DOMAIN teamsDB \cap DOMAIN teamsDB' :
         teamsDB'[id].currentPhase # teamsDB[id].currentPhase
            => teamsDB'[id].currentPhase = teamsDB[id].currentPhase + 1]_vars

(***************************************************************************)
(* C4: over any sequence of requests handled one at a time, a team's       *)
(* currentPhase is always an integer in 1..7 and never decreases.          *)
(***************************************************************************)
C4_PhaseMonotone ==
    [][\A id \in DOMAIN teamsDB' :
         /\ teamsDB'[id].currentPhase \in 1..7
         /\ id \in DOMAIN teamsDB
               => teamsDB'[id].currentPhase >= teamsDB[id].currentPhase]_vars

\* a team has gone all the way to 7 and then sent an earlier phase's
\* passing answers again
C4_Witness ==
    /\ req.op = "phase2/submit"
    /\ RightPositions(phase2Questions, req.answers) = 0..9
    /\ getTeamById(req.teamId) # Null
    /\ getTeamById(req.teamId).currentPhase = 7

C6_Phase2NeedsAnswers ==
    [][\A id \in DOMAIN teamsDB \cap DOMAIN teamsDB' :
         (~teamsDB[id].phase2.completed /\ teamsDB'[id].phase2.completed)
            => /\ req'.op = "phase2/submit"
               /\ req'.teamId = Id(id)
               /\ RightPositions(phase2Questions, req'.answers) = 0..9]_vars

(***************************************************************************)
(* C7: phase5/complete marks phase 5 completed if and only if the          *)
(* submitted answers object holds a correct answer for each of the three   *)
(* riddles (ids 1, 2, 3), for every answers object, whose keys are         *)
(* arbitrary strings resolved to riddle ids by integer parsing.  The code  *)
(* does not do this: it counts entries, and several keys ("1", "01", "1x") *)
(* resolve to the same riddle.                                             *)
(***************************************************************************)
C7_Phase5AllRiddles ==
    [][(Answers({"phase5/complete"}) /\ TeamBefore.currentPhase = 5
        /\ ~TeamBefore.phase5.completed)
          => (TeamAfter.phase5.completed
                <=> RiddlesAnswered(req'.answers) = {1, 2, 3})]_vars

(***************************************************************************)
(* C8: two phase5/complete requests that differ only in the client-        *)
(* supplied score field get the same response and leave the same team      *)
(* record; a forged high score never causes a pass.                        *)
(***************************************************************************)
C8_ScoreFieldIgnored ==
    req = NoRequest =>
        \A r1 \in Phase5CompleteRequests : \A sc \in {Undefined, Num(0), Num(3), Num(99)} :
            LET r2 == [r1 EXCEPT !.score = sc] IN
            /\ Phase5CompleteOutcome(r1) = Phase5CompleteOutcome(r2)
            /\ (ServerScore(r2.answers) < Len(phase5Riddles)
                  => Phase5CompleteOutcome(r2).db = teamsDB)

\* a team on phase 5 has claimed a score of 3 with answers that do not earn
\* it, and was failed
C8_Witness ==
    /\ req.op = "phase5/complete"
    /\ req.score = Num(3)
    /\ ServerScore(req.answers) < Len(phase5Riddles)
    /\ res.status = 200
    /\ ~res.body.success
    /\ getTeamById(req.teamId).currentPhase = 5
    /\ ~getTeamById(req.teamId).phase5.completed

(***************************************************************************)
(* C9: for a team at currentPhase 3 with phase 3 not completed,            *)
(* phase3/submit passes (phase3.completed true, currentPhase 4) exactly    *)
(* when the number of positions i in 0..4 with answers[i] equal to the     *)
(* correct index is at least 3; a score of 3 passes and a score of 2 fails *)
(* and changes nothing.                                                    *)
(***************************************************************************)
C9_Phase3Threshold ==
    [][(Answers({"phase3/submit"}) /\ TeamBefore.currentPhase = 3
        /\ ~TeamBefore.phase3.completed)
          => LET right == Cardinality(RightPositions(phase3Questions, req'.answers)) IN
             IF right >= 3
             THEN /\ res'.status = 200 /\ res'.body.passed /\ res'.body.score = right
                  /\ TeamAfter.phase3.completed
                  /\ TeamAfter.currentPhase = 4
             ELSE /\ res'.status = 200 => (~res'.body.passed /\ res'.body.score = right)
                  /\ teamsDB' = teamsDB]_vars

\* a team has passed phase 3 with exactly three right answers
C9_Witness ==
    /\ req.op = "phase3/submit"
    /\ Cardinality(RightPositions(phase3Questions, req.answers)) = 3
    /\ res.status = 200
    /\ res.body.passed
    /\ getTeamById(req.teamId).phase3.completed
    /\ getTeamById(req.teamId).currentPhase = 4

(***************************************************************************)
(* C10: for a team at currentPhase 4 with phase 4 not completed,           *)
(* phase4/submit passes (phase4.completed true, currentPhase 5) exactly    *)
(* when the answer, trimmed and lower-cased, equals                        *)
(* 'positive sum: 22, count: 4' or '22'; any other or missing answer       *)
(* returns correct:false and leaves the record unchanged.  The code does   *)
(* not do this for an answer that is not text: the number 22 has no trim,  *)
(* the handler ends in its catch and answers 500.                          *)
(***************************************************************************)
C10_Phase4Answer ==
    [][(Answers({"phase4/submit"}) /\ TeamBefore.currentPhase = 4
        /\ ~TeamBefore.phase4.completed)
          => LET a == req'.answer
                 matches == /\ a.t = "str"
                            /\ ToLowerCase(Trim(a.s)) \in {S_phase4, S_22}
             IN  IF matches
                 THEN /\ res'.status = 200 /\ res'.body.correct
                      /\ TeamAfter.phase4.completed
                      /\ TeamAfter.currentPhase = 5
                 ELSE /\ teamsDB' = teamsDB
                      /\ res'.status = 200
                      /\ ~res'.body.correct]_vars

\* what the handler does keep of C10: the same statement for answers that
\* are text or missing; any other answer leaves the record unchanged
C10_Phase4TextAnswer ==
    [][(Answers({"phase4/submit"}) /\ TeamBefore.currentPhase = 4
        /\ ~TeamBefore.phase4.completed)
          => LET a == req'.answer
                 matches == /\ a.t = "str"
                            /\ ToLowerCase(Trim(a.s)) \in {S_phase4, S_22}
             IN  IF matches
                 THEN /\ res'.status = 200 /\ res'.body.correct
                      /\ TeamAfter.phase4.completed
                      /\ TeamAfter.currentPhase = 5
                 ELSE /\ teamsDB' = teamsDB
                      /\ a.t \in {"str", "undef"}
                            => (res'.status = 200 /\ ~res'.body.correct)]_vars

\* a team has passed phase 4 with an answer that needed both the trim and
\* the case folding
C10_TextWitness ==
    /\ req.op = "phase4/submit"
    /\ req.answer = Str(S_phase4_caps)
    /\ res.status = 200
    /\ res.body.correct
    /\ getTeamById(req.teamId).phase4.completed
    /\ getTeamById(req.teamId).currentPhase = 5

(***************************************************************************)
(* C11: for a freshly registered team (currentPhase 1, phase 1 open),      *)
(* phase1/submit with a prompt containing 'VU2050' in any letter case sets *)
(* phase1.completed true, stores the prompt and sets currentPhase 2; a     *)
(* prompt without the marker is rejected with no change; and a             *)
(* phase1/submit after the successful one is rejected with the             *)
(* state-conflict error, again with no change.                             *)
(***************************************************************************)
C11_Phase1Marker ==
    [][Answers({"phase1/submit"}) =>
         LET p == req'.aiPrompt
             marked == p.t = "str" /\ Includes(ToLowerCase(p.s), S_vu2050)
         IN  /\ (TeamBefore.currentPhase = 1 /\ ~TeamBefore.phase1.completed)
                  => IF marked
                     THEN /\ res'.status = 200 /\ res'.body.success
                          /\ TeamAfter.phase1.completed
                          /\ TeamAfter.phase1.aiPrompt = p
                          /\ TeamAfter.currentPhase = 2
                     ELSE Rejected /\ teamsDB' = teamsDB
             /\ (TeamBefore.phase1.completed /\ marked)
                  => /\ res' = Error(400, "Phase 1 already completed")
                     /\ teamsDB' = teamsDB]_vars

\* a team whose lower-case prompt was accepted has sent a marked prompt
\* again and got the state-conflict error
C11_Witness ==
    /\ req.op = "phase1/submit"
    /\ req.aiPrompt = Str(S_prompt_upper)
    /\ res = Error(400, "Phase 1 already completed")
    /\ getTeamById(req.teamId).phase1.aiPrompt = Str(S_prompt_lower)
    /\ getTeamById(req.teamId).currentPhase = 2

(***************************************************************************)
(* C12: for a team at currentPhase 6 with phase 6 not completed,           *)
(* phase6/submit always succeeds whatever locationAnswer is (including     *)
(* absent, stored as the empty string): it sets phase6.completed true,     *)
(* records the location answer and sets currentPhase to 7.                 *)
(***************************************************************************)
C12_Phase6AlwaysPasses ==
    [][(Answers({"phase6/submit"}) /\ TeamBefore.currentPhase = 6
        /\ ~TeamBefore.phase6.completed)
          => LET la == req'.locationAnswer IN
             /\ res'.status = 200 /\ res'.body.success
             /\ TeamAfter.phase6.completed
             /\ TeamAfter.phase6.locationAnswer =
                    (IF la \in {Undefined, Null, Num(0), Str(<<>>)} THEN Str(<<>>) ELSE la)
             /\ TeamAfter.currentPhase = 7]_vars

\* a team has finished the hunt with no location answer in its request
C12_Witness ==
    /\ req.op = "phase6/submit"
    /\ req.locationAnswer = Undefined
    /\ res.status = 200
    /\ getTeamById(req.teamId).phase6.completed
    /\ getTeamById(req.teamId).phase6.locationAnswer = Str(<<>>)
    /\ getTeamById(req.teamId).currentPhase = 7

(***************************************************************************)
(* C13: every accepted registration stores a team with currentPhase = 1    *)
(* and the completed flags of phase1..phase6 all false.                    *)
(***************************************************************************)
C13_RegisteredAtStart ==
    [][(req = NoRequest /\ req'.op = "register" /\ res'.status = 200)
          => \E id \in DOMAIN teamsDB' \ DOMAIN teamsDB :
                /\ DOMAIN teamsDB' = DOMAIN teamsDB \cup {id}
                /\ teamsDB'[id] = res'.body.team
                /\ teamsDB'[id].currentPhase = 1
                /\ \A N \in 1..6 : ~teamsDB'[id][PhaseKey(N)].completed]_vars

\* a registration has just been accepted and its team is in the store
C13_Witness ==
    /\ req.op = "register"
    /\ res.status = 200
    /\ getTeamById(res.body.team.teamId) = res.body.team
    /\ res.body.team.currentPhase = 1

(***************************************************************************)
(* C14: a registration whose teamName equals an already stored team's name *)
(* up to letter case is rejected (with the duplicate-name error when       *)
(* nothing else is wrong with it) and adds no team; the stored teamName is *)
(* always the lower-cased form.                                            *)
(***************************************************************************)
C14_DuplicateName ==
    [][/\ (/\ req = NoRequest /\ req'.op = "register"
            /\ \E id \in DOMAIN teamsDB :
                  ToLowerCase(teamsDB[id].teamName) = ToLowerCase(req'.teamName.s))
          => /\ Rejected
             /\ teamsDB' = teamsDB
             /\ (/\ emailRegexTest(req'.email.s)
                 /\ req'.theme \in validThemes
                 /\ Len(ParseMembers(req'.teamMembers.s)) \in 3..4)
                   => res' = Error(400, "Team name already exists")
       /\ \A id \in DOMAIN teamsDB' :
             \A i \in DOMAIN teamsDB'[id].teamName :
                \A j \in DOMAIN Uppers : teamsDB'[id].teamName[i] # Uppers[j]]_vars

\* with two teams stored, a registration under another spelling of the
\* first one's name has been turned down as a duplicate
C14_Witness ==
    /\ req.op = "register"
    /\ req.teamName = Str(S_ALPHA)
    /\ res = Error(400, "Team name already exists")
    /\ Cardinality(DOMAIN teamsDB) = 2
    /\ \E id \in DOMAIN teamsDB : teamsDB[id].teamName = S_alpha

(***************************************************************************)
(* C15: a registration with a missing required field, an email not         *)
(* matching the address pattern, a theme outside the five fixed themes, or *)
(* a member count (after splitting on commas, trimming and dropping        *)
(* empties) outside 3..4 is rejected with an error and creates no team     *)
(* record.                                                                 *)
(***************************************************************************)
C15_InvalidRegistration ==
    [][(/\ req = NoRequest /\ req'.op = "register"
        /\ LET r == req' IN
           \/ Undefined \in {r.teamName, r.teamLeader, r.teamMembers, r.email}
           \/ r.theme = ""
           \/ ~emailRegexTest(r.email.s)
           \/ r.theme \notin {"AI in Healthcare", "Generative AI & Creativity",
                              "Computer Science Fundamentals",
                              "AI in Education & Learning", "AI in Smart Cities"}
           \/ Len(ParseMembers(r.teamMembers.s)) \notin 3..4)
          => (Rejected /\ teamsDB' = teamsDB)]_vars

\* a registration naming five members has been turned down
C15_Witness ==
    /\ req.op = "register"
    /\ req.teamMembers = Str(S_members5)
    /\ res = Error(400, "Team must have 3-4 members")
    /\ teamsDB = EmptyObject

(***************************************************************************)
(* C16: when two passing submissions for the same team and the same phase  *)
(* are processed concurrently (each handler's read of the team record and  *)
(* its later write being separate steps), exactly one is accepted: the     *)
(* second to commit observes completed == true and is rejected.  The code  *)
(* does not do this: the completed check is made on the record read before *)
(* the write, so both handlers pass it and both are answered passed.       *)
(***************************************************************************)
C16_OneAccepted ==
    \A s1, s2 \in Slots :
        (/\ s1 # s2
         /\ inflight[s1].state = "done" /\ inflight[s2].state = "done"
         /\ inflight[s1].r.teamId = inflight[s2].r.teamId)
          => ~(/\ inflight[s1].res.status = 200 /\ inflight[s1].res.body.passed
               /\ inflight[s2].res.status = 200 /\ inflight[s2].res.body.passed)

(***************************************************************************)
(* C17: in every reachable state and for every N in 1..6, a team's         *)
(* phaseN.completed is true only if its currentPhase is greater than N:    *)
(* the completed flag and the advanced currentPhase are written by one     *)
(* update, so no state shows the flag without the advance.                 *)
(***************************************************************************)
C17_CompletedImpliesAdvanced ==
    \A id \in DOMAIN teamsDB : \A N \in 1..6 :
        teamsDB[id][PhaseKey(N)].completed => teamsDB[id].currentPhase > N

\* a team has completed all six phases and stands at 7
C17_Witness ==
    \E id \in DOMAIN teamsDB :
        /\ \A N \in 1..6 : teamsDB[id][PhaseKey(N)].completed
        /\ teamsDB[id].currentPhase = 7

(***************************************************************************)
(* C18: in every reachable state the leaderboard listing returns at most   *)
(* 10 entries, and every entry is a stored team whose phase6.completed is  *)
(* true.                                                                   *)
(***************************************************************************)
C18_LeaderboardBounded ==
    req.op = "leaderboard" =>
        /\ res.status = 200
        /\ Len(res.body) <= 10
        /\ \A i \in DOMAIN res.body :
              \E id \in DOMAIN teamsDB :
                 /\ teamsDB[id].phase6.completed
                 /\ res.body[i] = [teamId |-> teamsDB[id].teamId,
                                   teamName |-> teamsDB[id].teamName,
                                   teamLeader |-> teamsDB[id].teamLeader]

\* the leaderboard has been read from a store with more than ten finished
\* teams, and lists ten
C18_Witness ==
    /\ req.op = "leaderboard"
    /\ Cardinality({id \in DOMAIN teamsDB : teamsDB[id].phase6.completed}) > 10
    /\ Len(res.body) = 10

\* a response item, or each of a list of them, is without a correctness key
NoKey(item) == DOMAIN item \cap {"correctAnswer", "acceptedAnswers"} = {}

NoKeyInAny(items) == \A i \in DOMAIN items : NoKey(items[i])

(***************************************************************************)
(* C19: no response of any endpoint contains the private correctness key   *)
(* (correctAnswer index or acceptedAnswers set) of a phase content item;   *)
(* the content endpoints for phases 2, 3 and 5 return each item with the   *)
(* key stripped.  The code does not do this: every scored phase3/submit    *)
(* response carries the phase-3 questions whole, and the correct index     *)
(* again in each entry of its results.                                     *)
(***************************************************************************)
C19_NoKeyInResponse ==
    req # NoRequest =>
        IF req.op \in {"phase2/questions", "phase3/questions", "phase5/riddles",
                       "leaderboard", "admin/teams"}
        THEN NoKeyInAny(res.body)
        ELSE /\ NoKey(res.body)
             /\ "results" \in DOMAIN res.body => NoKeyInAny(res.body.results)
             /\ "questions" \in DOMAIN res.body => NoKeyInAny(res.body.questions)

\* a response body carries the item count, as its total or as the length of
\* its per-item list
CarriesTotal(body, n) ==
    IF "total" \in DOMAIN body THEN body.total = n
    ELSE "results" \in DOMAIN body /\ Len(body.results) = n

\* a response body carries a verdict per item
CarriesBreakdown(body, n) ==
    /\ "results" \in DOMAIN body
    /\ Len(body.results) = n
    /\ \A i \in 1..n : body.results[i].isCorrect \in BOOLEAN

(***************************************************************************)
(* C20: a failing submission for phase 2, 3 or 5 returns a response that   *)
(* carries the computed score, the total item count and a per-item         *)
(* correctness breakdown, and leaves currentPhase and all completed flags  *)
(* unchanged.  The code does not do this for phase 5: a failing            *)
(* phase5/complete answers with score, total and a message only.           *)
(***************************************************************************)
C20_FailingResponse ==
    [][\A N \in {2, 3, 5} :
         (/\ Answers({SubmitOp(N)})
          /\ res'.status = 200
          /\ IF N = 5 THEN ~res'.body.success ELSE ~res'.body.passed)
            => LET n == IF N = 2 THEN Len(phase2Questions)
                        ELSE IF N = 3 THEN Len(phase3Questions)
                        ELSE Len(phase5Riddles)
                   right == IF N = 2
                            THEN Cardinality(RightPositions(phase2Questions, req'.answers))
                            ELSE IF N = 3
                            THEN Cardinality(RightPositions(phase3Questions, req'.answers))
                            ELSE ServerScore(req'.answers)
               IN  /\ res'.body.score = right
                   /\ CarriesTotal(res'.body, n)
                   /\ CarriesBreakdown(res'.body, n)
                   /\ TeamAfter.currentPhase = TeamBefore.currentPhase
                   /\ \A M \in 1..6 : TeamAfter[PhaseKey(M)].completed
                                        = TeamBefore[PhaseKey(M)].completed]_vars

(***************************************************************************)
(* C21: creating a team under an identifier that is already present in the *)
(* store fails and leaves the existing record unchanged.  The code does    *)
(* not do this: createTeam is an unconditional set, and the registration   *)
(* handler does not look the generated identifier up.                      *)
(***************************************************************************)
C21_CreateFailsIfPresent ==
    [][(req = NoRequest /\ req'.op = "register")
          => /\ \A id \in DOMAIN teamsDB :
                   id \in DOMAIN teamsDB' /\ teamsDB'[id] = teamsDB[id]
             /\ res'.status = 200 => res'.body.team.teamId.n \notin DOMAIN teamsDB]_vars

\* the handlers that look a team up by the teamId of the request body
TeamOps == {"phase1/submit", "phase2/submit", "phase2/complete", "phase3/submit",
            "phase4/submit", "phase5/answer", "phase5/complete", "phase6/submit"}

\* this step answers such a request whose teamId names no stored team
AnswersUnknownTeam ==
    /\ req = NoRequest
    /\ req'.op \in TeamOps
    /\ (req'.teamId.t # "id" \/ req'.teamId.n \notin DOMAIN teamsDB)

(***************************************************************************)
(* C22: any phase submission or phase5/answer request whose teamId matches *)
(* no stored team is answered with a not-found (404) outcome, creates no   *)
(* record and changes no stored team.  As stated this fails for            *)
(* phase1/submit, which validates its body before it looks the team up.    *)
(***************************************************************************)
C22_UnknownTeam404 ==
    [][AnswersUnknownTeam => (res'.status = 404 /\ teamsDB' = teamsDB)]_vars

\* C22 as the code has it: no record is created and no team changed; the
\* answer is 404, except that phase1/submit without a teamId or without a
\* prompt is answered with its 400 validation error
C22_UnknownTeamRejected ==
    [][AnswersUnknownTeam
          => /\ teamsDB' = teamsDB
             /\ IF req'.op = "phase1/submit"
                   /\ (req'.teamId = Undefined \/ req'.aiPrompt = Undefined)
                THEN res' = Error(400, "Team ID and AI prompt are required")
                ELSE res' = Error(404, "Team not found")]_vars

\* a completion request for a deleted team has been answered not found,
\* with another team in the store
C22_Witness ==
    /\ req.op = "phase2/complete"
    /\ req.teamId = Id(1)
    /\ res = Error(404, "Team not found")
    /\ DOMAIN teamsDB = {2}

(***************************************************************************)
(* C23: the set of stored teams shrinks only through the administrative    *)
(* delete-one and clear-all operations: no registration, phase submission, *)
(* single-answer check or read ever removes a team.                        *)
(***************************************************************************)
C23_OnlyAdminRemoves ==
    [][(\E id \in DOMAIN teamsDB : id \notin DOMAIN teamsDB')
          => (req = NoRequest /\ req'.op \in {"admin/delete", "admin/clear-all"})]_vars

\* a failing submission has been answered and its team is still stored
C23_Witness ==
    /\ req.op = "phase3/submit"
    /\ res.status = 200
    /\ ~res.body.passed
    /\ getTeamById(req.teamId) # Null
    /\ getTeamById(req.teamId).currentPhase = 3

\* the answer of this step says the submission passed
Passing ==
    /\ res'.status = 200
    /\ res'.body.success
    /\ "passed" \in DOMAIN res'.body => res'.body.passed

(***************************************************************************)
(* C24: a passing submission for phase N by team T changes only T's phaseN *)
(* outcome record and T's currentPhase: T's identity and profile fields,   *)
(* T's other phases' outcome records, and every other team's record are    *)
(* unchanged.                                                              *)
(***************************************************************************)
C24_PassingFrame ==
    [][\A N \in 1..6 :
         (Answers(CompletionOps(N)) /\ Passing)
            => /\ DOMAIN teamsDB' = DOMAIN teamsDB
               /\ \A id \in DOMAIN teamsDB \ {req'.teamId.n} : teamsDB'[id] = teamsDB[id]
               /\ DOMAIN TeamAfter = DOMAIN TeamBefore
               /\ \A k \in DOMAIN TeamBefore \ {PhaseKey(N), "currentPhase"} :
                      TeamAfter[k] = TeamBefore[k]]_vars

\* team 1 has just passed phase 3 while team 2, stored beside it, is on
\* phase 2 with its own phase-1 record
C24_Witness ==
    /\ req.op = "phase3/submit"
    /\ req.teamId = Id(1)
    /\ res.status = 200
    /\ res.body.passed
    /\ DOMAIN teamsDB = {1, 2}
    /\ teamsDB[1].currentPhase = 4
    /\ teamsDB[1].phase1.completed
    /\ teamsDB[2].currentPhase = 2
    /\ teamsDB[2].phase1.completed
    /\ teamsDB[1].teamName # teamsDB[2].teamName

(***************************************************************************)
(* C25: the aggregate statistics report totalTeams equal to the number of  *)
(* stored teams and, for each N in 1..6, a phaseN count equal to the       *)
(* number of stored teams with phaseN.completed true (hence each count is  *)
(* at most totalTeams).  Stated on the answer of admin/stats, which is     *)
(* computed from the store it is compared with.                            *)
(***************************************************************************)
C25_StatsCount ==
    req.op = "admin/stats"
       => /\ res.status = 200
          /\ res.body.totalTeams = Cardinality(DOMAIN teamsDB)
          /\ \A N \in 1..6 :
                /\ res.body.phaseStats[PhaseKey(N)]
                      = Cardinality({id \in DOMAIN teamsDB : teamsDB[id][PhaseKey(N)].completed})
                /\ res.body.phaseStats[PhaseKey(N)] <= res.body.totalTeams

\* two teams, one that skipped phase 1 and completed phase 2, one that
\* completed phase 1 only: the counters differ from each other and from
\* the total
C25_Witness ==
    /\ req.op = "admin/stats"
    /\ res.body.totalTeams = 2
    /\ res.body.phaseStats["phase1"] = 1
    /\ res.body.phaseStats["phase2"] = 1
    /\ res.body.phaseStats["phase3"] = 0
    /\ \E id \in DOMAIN teamsDB : teamsDB[id].phase2.completed /\ ~teamsDB[id].phase1.completed

\* the request being answered got the answer "correct"
ReportedCorrect == res.status = 200 /\ res.body.correct

\* the answer is the number k, in value and in type
IsIndex(answer, k) == answer.t = "num" /\ answer.n = k

(***************************************************************************)
(* C26: single-answer checking (phase2/check-answer and phase5/answer)     *)
(* reports a multiple-choice answer correct exactly when it is strictly    *)
(* equal, in value and type, to the item's correct index, and a free-text  *)
(* answer correct exactly when its trimmed lower-cased form equals the     *)
(* trimmed lower-cased form of some accepted answer ("bldg 2" or "bldg2"   *)
(* for the one text riddle).  Stated for a check that names an item, and   *)
(* for phase 5 a team that is on phase 5.                                  *)
(***************************************************************************)
C26_SingleAnswer ==
    /\ (/\ req.op = "phase2/check-answer"
        /\ req.questionIndex.t = "num"
        /\ req.questionIndex.n \in 0..(Len(phase2Questions) - 1))
          => (ReportedCorrect
                <=> IsIndex(req.answer, <<2, 0, 2, 3, 1, 2, 3, 3, 3, 2>>[req.questionIndex.n + 1]))
    /\ (/\ req.op = "phase5/answer"
        /\ getTeamById(req.teamId) # Null
        /\ getTeamById(req.teamId).currentPhase = 5
        /\ req.riddleId \in {Num(1), Num(2), Num(3)})
          => IF req.riddleId = Num(3)
             THEN req.answer.t = "str"
                     => (ReportedCorrect
                           <=> ToLowerCase(Trim(req.answer.s)) \in {S_bldg_2, S_bldg2})
             ELSE /\ res.status = 200
                  /\ ReportedCorrect <=> IsIndex(req.answer, 2)

\* the text riddle answered with " bLdG2 " and reported correct
C26_Witness ==
    /\ req.op = "phase5/answer"
    /\ req.riddleId = Num(3)
    /\ req.answer = Str(S_bldg2_padded)
    /\ ReportedCorrect

\* the stored teams whose name is the looked-up name up to letter case
Namesakes == {id \in DOMAIN teamsDB :
                 ToLowerCase(teamsDB[id].teamName) = ToLowerCase(req.teamName.s)}

(***************************************************************************)
(* C27: after a team is registered under name X, looking the team up by    *)
(* any letter-case variant of X returns that team's record, and looking up *)
(* a name that no stored team has returns not found.  Stated on the answer *)
(* of every lookup, over the names the registrations have stored.          *)
(***************************************************************************)
C27_LookupByName ==
    req.op = "teams/get"
       => IF Namesakes = {}
          THEN res = Error(404, "Team not found")
          ELSE /\ res.status = 200
               /\ \E id \in Namesakes : res.body = teamsDB[id]
               /\ ToLowerCase(res.body.teamName) = ToLowerCase(req.teamName.s)

\* with Alpha and Beta registered, a lookup of "ALPHA" has returned the
\* record stored under "alpha"
C27_Witness ==
    /\ req.op = "teams/get"
    /\ req.teamName = Str(S_ALPHA)
    /\ res.status = 200
    /\ res.body.teamName = S_alpha
    /\ Cardinality(DOMAIN teamsDB) = 2
    /\ \E id \in DOMAIN teamsDB : teamsDB[id].teamName = S_beta /\ id < res.body.teamId.n

\* a lookup of a name nobody registered, with teams stored
C27_NotFoundWitness ==
    /\ req.op = "teams/get"
    /\ req.teamName = Str(S_Gamma)
    /\ res = Error(404, "Team not found")
    /\ DOMAIN teamsDB # {}

(***************************************************************************)
(* C28: a team with currentPhase = k has phaseN.completed true for every N *)
(* in 1..k-1: no phase can be skipped.  The code does not do this:         *)
(* phase2/complete and a passing phase2/submit take a team that is still   *)
(* on phase 1 to currentPhase 3 with phase 1 not completed.                *)
(***************************************************************************)
C28_NoPhaseSkipped ==
    \A id \in DOMAIN teamsDB :
        \A N \in 1..(teamsDB[id].currentPhase - 1) : teamsDB[id][PhaseKey(N)].completed

(***************************************************************************)
(* C29: under any interleaving of concurrent requests for the same team    *)
(* (handler read and write being separate steps), a phaseN.completed flag  *)
(* that has become true never becomes false again and currentPhase never   *)
(* decreases, as long as the team is not deleted.  The code does not do    *)
(* this: a phase2/submit that looked the team up before another request    *)
(* completed the phase writes its own outcome over the later one.          *)
(***************************************************************************)
C29_NeverReverts ==
    [][\A id \in DOMAIN teamsDB \cap DOMAIN teamsDB' :
         /\ teamsDB'[id].currentPhase >= teamsDB[id].currentPhase
         /\ \A N \in 1..6 : teamsDB[id][PhaseKey(N)].completed
                                => teamsDB'[id][PhaseKey(N)].completed]_vars

(***************************************************************************)
(* C30: in every reachable state, including states reached by interleaved  *)
(* concurrent requests, a team with currentPhase = N for N in 1..6 has     *)
(* phaseN.completed false, so the submission handler of its current phase  *)
(* is never permanently blocked by the already-completed guard.  The code  *)
(* does not do this: a passing phase2/submit that looked the team up       *)
(* before the team went on writes currentPhase 3 over a completed phase 3. *)
(***************************************************************************)
C30_CurrentPhaseOpen ==
    \A id \in DOMAIN teamsDB :
        teamsDB[id].currentPhase \in 1..6
           => ~teamsDB[id][PhaseKey(teamsDB[id].currentPhase)].completed

(***************************************************************************)
(* C31: under fair request handling, a registered team that is never       *)
(* deleted and that keeps submitting a passing answer set to the           *)
(* submission handler of the phase given by its currentPhase eventually    *)
(* reaches currentPhase = 7 with phase6.completed true.                    *)
(***************************************************************************)
C31_EventuallyDone ==
    \A id \in 1..MaxTeams :
        (id \in DOMAIN teamsDB)
           ~> (/\ id \in DOMAIN teamsDB
               /\ teamsDB[id].currentPhase = 7
               /\ teamsDB[id].phase6.completed)

\* the team has gone through all six phases in order and got the last
\* answer
C31_Witness ==
    /\ req.op = "phase6/submit"
    /\ req.teamId = Id(1)
    /\ res.status = 200
    /\ teamsDB[1].currentPhase = 7
    /\ \A N \in 1..6 : teamsDB[1][PhaseKey(N)].completed

\* the handlers that submit or complete a phase
SubmissionOps == UNION {CompletionOps(N) : N \in 1..6}

(***************************************************************************)
(* C32: once a team's currentPhase is 7, every later phase submission or   *)
(* completion request for that team on any phase (including                *)
(* phase2/complete) is rejected and the team record never changes again    *)
(* until an administrative delete.                                         *)
(***************************************************************************)
C32_DoneIsFinal ==
    [][\A id \in DOMAIN teamsDB :
         teamsDB[id].currentPhase = 7
            => /\ (req = NoRequest /\ req'.op \in SubmissionOps /\ req'.teamId = Id(id))
                     => Rejected
               /\ IF id \in DOMAIN teamsDB'
                  THEN teamsDB'[id] = teamsDB[id]
                  ELSE req'.op \in {"admin/delete", "admin/clear-all"}]_vars

\* a team that is done has asked for phase2/complete and was turned down
C32_Witness ==
    /\ req.op = "phase2/complete"
    /\ getTeamById(req.teamId) # Null
    /\ getTeamById(req.teamId).currentPhase = 7
    /\ getTeamById(req.teamId).phase6.completed
    /\ res = Error(400, "Phase 2 already completed")

(***************************************************************************)
(* C33: in every reachable state, including states reached by interleaved  *)
(* concurrent registration requests (name lookup and record creation being *)
(* separate steps), no two stored teams have the same teamName.  The code  *)
(* does not do this: two registrations of one name that both look the name *)
(* up before either creates its record are both stored.                    *)
(***************************************************************************)
C33_UniqueNames ==
    \A id1, id2 \in DOMAIN teamsDB :
        teamsDB[id1].teamName = teamsDB[id2].teamName => id1 = id2

\* a registration in flight has generated this identifier and is about to
\* store its record
BeingCreated(id) ==
    \E s \in Slots : inflight[s].state = "creating" /\ inflight[s].team.teamId = Id(id)

(***************************************************************************)
(* C34: after an administrative delete of team T, no record is stored      *)
(* under T's identifier again, even when a phase submission for T had      *)
(* already read T's record before the delete and writes its outcome after  *)
(* it.  Stated on every step: a record appears under an identifier only    *)
(* when the registration that generated the identifier creates it, which   *)
(* it does once.                                                           *)
(***************************************************************************)
C34_NoRecordAfterDelete ==
    [][\A id \in DOMAIN teamsDB' \ DOMAIN teamsDB :
         /\ BeingCreated(id)
         /\ ~BeingCreated(id)']_vars

\* a phase-1 submission read its team, the team was deleted, and the
\* submission's update found no document: it is answered 500 and the
\* identifier stays empty
C34_Witness ==
    \E s \in Slots :
        /\ inflight[s].state = "done"
        /\ inflight[s].r.op = "phase1/submit"
        /\ inflight[s].res = Error(500, "Server error")
        /\ inflight[s].r.teamId.n \in 1..(nextId - 1)
        /\ inflight[s].r.teamId.n \notin DOMAIN teamsDB
        /\ ~BeingCreated(inflight[s].r.teamId.n)

\* what phase5/complete adds to the score for this answer given under the
\* riddle's id as the only entry of the answers map
CountedByComplete(riddleId, answer) ==
    ServerScore(Obj(NumToString(riddleId.n) :> Ans(answer)))

(***************************************************************************)
(* C35: per-item feedback agrees with final scoring: for every phase-5     *)
(* riddle and every answer value for which phase5/answer returns a         *)
(* verdict, phase5/answer reports correct exactly when phase5/complete     *)
(* counts that same answer for that riddle toward the score, and likewise  *)
(* phase2/check-answer for question index i agrees with phase2/submit's    *)
(* isCorrect for answers[i].  The code does not do this for the text       *)
(* riddle: phase5/answer compares answer.toString(), phase5/complete       *)
(* counts strings only.                                                    *)
(***************************************************************************)
C35_FeedbackAgrees ==
    /\ (req.op = "phase5/answer" /\ res.status = 200)
          => (res.body.correct <=> CountedByComplete(req.riddleId, req.answer) = 1)
    /\ (req.op = "phase2/check-answer" /\ res.status = 200)
          => (res.body.correct
                <=> IsCorrectAt(phase2Questions,
                                Arr([i \in 1..(req.questionIndex.n + 1) |-> req.answer]),
                                req.questionIndex.n))

\* the update the handler of the step hands to saveTeam, NoUpdate when it
\* saves nothing
IssuedUpdate ==
    LET r == req'
        team == getTeamById(r.teamId)
        saved == res'.status = 200 /\ res'.body.success
    IN  CASE r.op = "phase1/submit" -> Phase1Decision(team, r).update
          [] r.op = "phase2/submit" -> Phase2SubmitDecision(team, r).update
          [] r.op = "phase3/submit" -> Phase3SubmitDecision(team, r).update
          [] r.op = "phase2/complete" -> IF saved THEN Phase2CompleteUpdate ELSE NoUpdate
          [] r.op = "phase4/submit" -> IF saved THEN Phase4Update ELSE NoUpdate
          [] r.op = "phase5/complete" -> IF saved THEN Phase5Update ELSE NoUpdate
          [] r.op = "phase6/submit" -> IF saved THEN Phase6Update(r) ELSE NoUpdate
          [] OTHER -> NoUpdate

(***************************************************************************)
(* C36: for every existing team record and every partial update issued by  *)
(* a phase handler, the in-memory backend's recursive merge and the        *)
(* durable backend's flatten-to-dot-paths update produce the same          *)
(* resulting record.  The code does not do this for an update that holds   *)
(* an empty object: the merge stores it, flattenObject yields no path for  *)
(* it.                                                                     *)
(***************************************************************************)
C36_BackendsAgree ==
    [][(req = NoRequest /\ req' # NoRequest /\ IssuedUpdate # NoUpdate)
          => teamsDB' = saveTeamDurable(req'.teamId, IssuedUpdate)]_vars

\* the content reads, the lookups and the single-answer checks
ReadOps ==
    {"phase2/check-answer", "phase5/answer", "phase2/questions", "phase3/questions",
     "phase4/code", "phase5/riddles", "teams/get", "leaderboard", "admin/teams",
     "admin/stats"}

(***************************************************************************)
(* C37: the content reads and the single-answer checks (phase2/check-      *)
(* answer, phase5/answer, the phase 2/3/4/5 content endpoints, team        *)
(* lookup, leaderboard, stats) never change any team record, whatever      *)
(* their input and whether the answer checked is correct or not.           *)
(***************************************************************************)
C37_ReadsChangeNothing ==
    [][(req = NoRequest /\ req'.op \in ReadOps) => teamsDB' = teamsDB]_vars

\* a team on phase 5 was told that its answer to a riddle is correct
C37_Witness ==
    /\ req.op = "phase5/answer"
    /\ res.status = 200
    /\ res.body.correct
    /\ getTeamById(req.teamId) # Null

\* every riddle of the page has an answer the server called correct
AllAnsweredCorrectly ==
    /\ DOMAIN client.answers = {riddles[i].id : i \in DOMAIN riddles}
    /\ \A id \in DOMAIN client.answers :
          "correct" \in DOMAIN client.answers[id] /\ client.answers[id].correct

(***************************************************************************)
(* C38: in the Phase 5 client, the completion request fired after the last *)
(* riddle is answered carries an answers map with an entry for every       *)
(* riddle answered in the current attempt, including the last one, so a    *)
(* team that answers all riddles correctly in the client has phase 5       *)
(* completed by the server.  The code does not do this: the callback sends *)
(* the answers of the render the last click was made on, which has no      *)
(* entry for the last riddle.                                              *)
(***************************************************************************)
C38_CompletionCarriesAll ==
    [][(req = NoRequest /\ req'.op = "phase5/complete")
          => /\ \A id \in DOMAIN client.answers :
                   NumToString(id) \in DOMAIN req'.answers.s
             /\ AllAnsweredCorrectly
                   => \E id \in DOMAIN teamsDB' :
                         /\ Id(id) = req'.teamId
                         /\ teamsDB'[id].phase5.completed]_vars

(***************************************************************************)
(* C39: after the Phase 1 client form (team details plus a prompt          *)
(* containing VU2050) is submitted successfully, the server's record for   *)
(* that team has phase1.completed true with the submitted prompt stored    *)
(* and currentPhase 2.  Read on the step of handleSubmit: a form that      *)
(* passes validateForm, under a team name no team has, leaves that record. *)
(* The code does not do this: the form carries no theme and the            *)
(* registration is refused.                                                *)
(***************************************************************************)
C39_FormCompletesPhase1 ==
    [][(/\ req = NoRequest /\ req'.op = "register" /\ "aiPrompt" \in DOMAIN req'
        /\ getTeamByName(req'.teamName.s) = Null)
          => \E id \in DOMAIN teamsDB' :
                /\ teamsDB'[id].teamName = ToLowerCase(req'.teamName.s)
                /\ teamsDB'[id].phase1.completed
                /\ "aiPrompt" \in DOMAIN teamsDB'[id].phase1
                /\ teamsDB'[id].phase1.aiPrompt = req'.aiPrompt
                /\ teamsDB'[id].currentPhase = 2]_vars

====
